---- MODULE Spec2Model ----
(***************************************************************************)
(* Verification model of the proofly extension: the AsyncQueue that        *)
(* serialises proofreading requests, the debounce utility, the background  *)
(* handler of issues updates and its badge updates, the IssueManager of    *)
(* the content script with its issue ids and getCorrection,                *)
(* replaceTextWithUndo, the applying of corrections by ProofreadingManager *)
(* the runs of ContentProofreadingService, the proofreader proxy of the    *)
(* service worker, the proofreading of an element by ProofreadingManager   *)
(* and the ElementTracker.                                                 *)
(* Each component has its own specification over the shared variables; the *)
(* variables of the other components stay at their initial values.         *)
(***************************************************************************)
EXTENDS Integers, Sequences, FiniteSets, TLC

VARIABLES
  \* ---- AsyncQueue (shared/utils/queue.ts)
  queue,        \* this.queue: the waiting wrappers, as operation ids
  processing,   \* this.processing
  pqAwait,      \* the operation processQueue() is suspended on (0: not running)
  opState,      \* per operation: new, queued, running, settled, done, dropped
  outcome,      \* per operation: how the operation itself settled
  promise,      \* per operation: the promise enqueue() returned
  started,      \* operations in the order operation() was invoked
  nextOp,       \* ordinal of the next enqueue() call
  \* ---- debounce (shared/utils/debounce.ts) and the host's timers
  dNow,         \* the clock
  timeoutId,    \* the closure's timeoutId (0: null)
  timers,       \* the host's pending timeouts: [id, due, args]
  nextTimer,    \* the id the next setTimeout returns
  dLog,         \* what happened: calls, cancels and invocations of fn
  \* ---- background service worker (background/main.ts)
  issuesByTab,  \* per tab: the stored TabIssuesState (has = FALSE: no entry)
  badgeQueue,   \* per tab: the badge updates chained on badgeUpdateQueues
  badgeRun,     \* per tab: the applyBadgeUpdate suspended on its first await
  busyTabs,     \* busyTabs
  busyTimers,   \* tabs with a pending 120 ms re-apply of the busy badge
  badge,        \* per tab: the badge text last set
  badgeHist,    \* per tab: updates enqueued, started, settled and skipped so far,
                \* whether the last one failed, and the ordinals of the queued ones
  baLast,       \* the last applyBadgeUpdate call: the revisions it was given and
                \* found stored, and whether it went on to set the badge
  bLast,        \* the event the worker handled last, with what it found
  \* ---- IssueManager (content/services/issue-manager.ts)
  elementCorrections,   \* per element: the stored corrections (<<>>: no entry)
  elementIssueLookup,   \* per element: issue id -> correction (<<>>: no entry)
  elementMessages,      \* per element and code: the message stored (0: none)
  issuesRevision,       \* this.issuesRevision
  pendingIssuesUpdate,  \* this.pendingIssuesUpdate
  microtasks,           \* the queued emission microtasks: queued by the current job?
  emissions,            \* the updates sent, in order
  inJob,                \* synchronous code is running
  jobClean,             \* the current job began with no emission microtask queued
  jobCalls,             \* non-immediate scheduleIssuesUpdate() calls of the current job
  jobDeferred,          \* emissions run from microtasks the current job queued
  \* ---- issue ids of one element, for any correction list
  idInput,      \* the corrections setCorrections is called with
  idLookup,     \* the element's elementIssueLookup entry
  idEmitted,    \* the issues emitIssuesUpdate builds for the element
  idPhase,      \* input, stored, emitted
  idLast,       \* the last getCorrection call: the id asked for, when, and what came back
  \* ---- replaceTextWithUndo (shared/utils/clipboard.ts), one call
  rElement,     \* the element: kind, value or text nodes, selection
  rStart,       \* startIndex
  rEnd,         \* endIndex
  rReplacement, \* replacement
  rOut,         \* the element's text and selection, the input events and the return value
  rPhase,       \* input, done
  \* ---- ProofreadingManager: applying corrections to one element
  aText,        \* the element's text
  aCorrections, \* elementCorrections.get(element) (<<>>: no entry), objects by id
  aPreviousText,\* elementPreviousText.get(element)
  aProofreads,  \* calls of debouncedProofread(element)
  aLast,        \* the last applyCorrectionToElement call, with the list it found
  \* ---- ContentProofreadingService (content/services/content-proofreading-service.ts)
  svcDetector,  \* this.languageDetectionService is set
  svcInitialized, \* initialize() has run
  svcQueue,     \* the runs waiting in this.proofreadQueue
  svcRun,       \* the run whose operation is suspended on an await (phase idle: none)
  svcMessages,  \* per element: the messages onMessage / onClearMessage left, in map order
  lastProofreaderBusy, \* this.lastProofreaderBusy
  svcBusyLog,   \* the values passed to onBusyChange, in order
  svcInFlight,  \* per element: requests sent to the service worker and not yet answered
  svcMicrotasks,\* the queued retry microtasks, by element
  svcScheduled, \* the elements controller.scheduleProofread was called with by a retry
  svcCalls,     \* runProofread calls so far
  svcLast,      \* the run that finished last: what it sent, got and returned
  \* ---- proofreader proxy of the service worker (background/proofreader-proxy.ts)
  proofreaderServices, \* per cache key: the cached service, as an instance id (0: no entry)
  activeOperations,    \* activeOperations
  pRequests,    \* per handleProofreadRequest call: where it is suspended, its key and service
  pReturned,    \* what the handleProofreadRequest call that finished last returned
  pInstances,   \* the services created so far: cache key, destroyed, resets before it
  pResets,      \* resetProofreaderServices calls that went through
  pSuspends,    \* onSuspend events so far
  pDeferred,    \* a reset was deferred and none went through since
  pLast,        \* the last resetProofreaderServices call, with what it found and left
  \* ---- ProofreadingManager: proofreading one element
  mText,        \* the element's text
  mCorrections, \* elementCorrections.get(element) (<<>>: no entry)
  mPreviousText,\* elementPreviousText.get(element)
  enabledCorrectionTypes, \* this.enabledCorrectionTypes
  mQueue,       \* the text snapshots of the operations waiting in this.proofreadQueue
  mRun,         \* the operation suspended on proofread(text), with its snapshot
  mCalls,       \* proofreadElement calls so far
  mEdits,       \* edits of the element's text so far
  mLast,        \* the operation that finished last: what it sent, found and left
  \* ---- ElementTracker (content/services/element-tracker.ts) and the document
  registeredElements, \* this.registeredElements
  elementIds,   \* this.elementIds: per element its identifier (0: none)
  elementLookup,\* this.elementLookup: per identifier its element (0: no entry)
  tCreated,     \* identifiers createUniqueId has given out so far
  tGiven,       \* per element: the identifiers getElementId has returned for it
  tAttached,    \* the elements that are in the document
  tLast         \* the last mutation observed: what was added and what was reported

qvars == <<queue, processing, pqAwait, opState, outcome, promise, started, nextOp>>

dvars == <<dNow, timeoutId, timers, nextTimer, dLog>>

bvars == <<issuesByTab, badgeQueue, badgeRun, busyTabs, busyTimers, badge, bLast,
           badgeHist, baLast>>

ivars == <<elementCorrections, elementIssueLookup, elementMessages, issuesRevision,
           pendingIssuesUpdate, microtasks, emissions, inJob, jobClean, jobCalls,
           jobDeferred>>

idvars == <<idInput, idLookup, idEmitted, idPhase, idLast>>

rvars == <<rElement, rStart, rEnd, rReplacement, rOut, rPhase>>

avars == <<aText, aCorrections, aPreviousText, aProofreads, aLast>>

svars == <<svcDetector, svcInitialized, svcQueue, svcRun, svcMessages, lastProofreaderBusy,
           svcBusyLog, svcInFlight, svcMicrotasks, svcScheduled, svcCalls, svcLast>>

pvars == <<proofreaderServices, activeOperations, pRequests, pReturned, pInstances, pResets, pSuspends,
           pDeferred, pLast>>

mvars == <<mText, mCorrections, mPreviousText, enabledCorrectionTypes, mQueue, mRun, mCalls,
           mEdits, mLast>>

tvars == <<registeredElements, elementIds, elementLookup, tCreated, tGiven, tAttached, tLast>>

vars == <<qvars, dvars, bvars, ivars, idvars, rvars, avars, svars, pvars, mvars, tvars>>

\* what the operations of one component leave alone
qRest == <<dvars, bvars, ivars, idvars, rvars, avars, svars, pvars, mvars, tvars>>
dRest == <<qvars, bvars, ivars, idvars, rvars, avars, svars, pvars, mvars, tvars>>
bRest == <<qvars, dvars, ivars, idvars, rvars, avars, svars, pvars, mvars, tvars>>
iRest == <<qvars, dvars, bvars, idvars, rvars, avars, svars, pvars, mvars, tvars>>
idRest == <<qvars, dvars, bvars, ivars, rvars, avars, svars, pvars, mvars, tvars>>
rRest == <<qvars, dvars, bvars, ivars, idvars, avars, svars, pvars, mvars, tvars>>
aRest == <<qvars, dvars, bvars, ivars, idvars, rvars, svars, pvars, mvars, tvars>>
sRest == <<qvars, dvars, bvars, ivars, idvars, rvars, avars, pvars, mvars, tvars>>
pRest == <<qvars, dvars, bvars, ivars, idvars, rvars, avars, svars, mvars, tvars>>
mRest == <<qvars, dvars, bvars, ivars, idvars, rvars, avars, svars, pvars, tvars>>
tRest == <<qvars, dvars, bvars, ivars, idvars, rvars, avars, svars, pvars, mvars>>

\* ------------------------------------------------------------------ bounds
MaxOps == 4
DelayMs == 4     \* delayMs, in clock ticks
MaxTime == 9     \* the clock stops here
MaxEvents == 3   \* calls of debounced() and cancel() in one run
MaxRev == 2      \* highest revision a message carries
MaxEmit == 3     \* emissions, sent or queued, in one run
MaxOffset == 2   \* highest startIndex and endIndex of a correction
MaxCorrections == 2   \* longest correction list
MaxMsgs == 2     \* events the background worker receives in one run
MaxIndex == 4    \* highest startIndex and endIndex replaceTextWithUndo is called with
MaxListed == 3   \* longest list of corrections an element is given before applying
MaxRuns == 2     \* runProofread calls in one run of the service
MaxRequests == 2 \* handleProofreadRequest calls the service worker receives
MaxProofreads == 2 \* proofreadElement calls for the element
MaxEdits == 2    \* edits of the element's text while it is proofread
MaxIds == 3      \* identifiers createUniqueId gives out
MaxSuspends == 1 \* onSuspend events the service worker receives

Max(S) == CHOOSE x \in S : \A y \in S : y <= x
Min(S) == CHOOSE x \in S : \A y \in S : x <= y

\* ------------------------------------------------------------------ initial states
Ops == 1..MaxOps

Pending == [state |-> "pending", value |-> 0]

InitQueue ==
  /\ queue = <<>>
  /\ processing = FALSE
  /\ pqAwait = 0
  /\ opState = [i \in Ops |-> "new"]
  /\ outcome = [i \in Ops |-> "none"]
  /\ promise = [i \in Ops |-> Pending]
  /\ started = <<>>
  /\ nextOp = 1

InitDebounce ==
  /\ dNow = 0
  /\ timeoutId = 0
  /\ timers = {}
  /\ nextTimer = 1
  /\ dLog = <<>>

Tabs == {1, 2}

NoState == [has |-> FALSE, issues |-> 0, revision |-> 0]
NoRun == [active |-> FALSE, total |-> 0]

InitBackground ==
  /\ issuesByTab = [t \in Tabs |-> NoState]
  /\ badgeQueue = [t \in Tabs |-> <<>>]
  /\ badgeRun = [t \in Tabs |-> NoRun]
  /\ busyTabs = {}
  /\ busyTimers = {}
  /\ badge = [t \in Tabs |-> "unset"]
  /\ bLast = [kind |-> "none", seq |-> 0]
  /\ badgeHist = [t \in Tabs |->
                    [issued |-> 0, started |-> 0, settled |-> 0, skips |-> 0,
                     failed |-> FALSE, tickets |-> <<>>]]
  /\ baLast = [seq |-> 0]

\* the tracked elements, numbered in document order
Elements == {1, 2}
Codes == {"language"}

InitIssues ==
  /\ elementCorrections = [e \in Elements |-> <<>>]
  /\ elementIssueLookup = [e \in Elements |-> <<>>]
  /\ elementMessages = [e \in Elements |-> [c \in Codes |-> 0]]
  /\ issuesRevision = 0
  /\ pendingIssuesUpdate = FALSE
  /\ microtasks = <<>>
  /\ emissions = <<>>
  /\ inJob = FALSE
  /\ jobClean = TRUE
  /\ jobCalls = 0
  /\ jobDeferred = 0

Corr(s, e, r) == [startIndex |-> s, endIndex |-> e, correction |-> r]

\* every correction with offsets up to MaxOffset, empty and reversed ranges and
\* empty replacements included, and every list of up to MaxCorrections of them
AllCorrections == {Corr(s, e, r) : s \in 0..MaxOffset, e \in 0..MaxOffset, r \in {"", "x"}}
AllCorrectionLists == UNION {[1..n -> AllCorrections] : n \in 0..MaxCorrections}

InitIds(lists) ==
  /\ idInput \in lists
  /\ idLookup = <<>>
  /\ idEmitted = <<>>
  /\ idPhase = "input"
  /\ idLast = [seq |-> 0]

\* an editable element: a textarea or input with its value and selection, or a
\* contenteditable element with its text nodes in document order
TextArea(value, selStart, selEnd) ==
  [kind |-> "textarea", value |-> value, nodes |-> <<>>,
   selectionStart |-> selStart, selectionEnd |-> selEnd]
ContentEditable(nodes) ==
  [kind |-> "contenteditable", value |-> "", nodes |-> nodes,
   selectionStart |-> 0, selectionEnd |-> 0]
PlainElement ==
  [kind |-> "other", value |-> "", nodes |-> <<>>, selectionStart |-> 0, selectionEnd |-> 0]

NoEdit == [text |-> "", selectionStart |-> 0, selectionEnd |-> 0,
           inputEvents |-> 0, result |-> FALSE, native |-> FALSE]

Values == {"abc"}
NodeLists == {<<>>, <<"abc">>, <<"a", "bc">>, <<"ab", "", "c">>}
Replacements == {"", "X", "XY"}

\* the calls checked: a textarea with any selection and a range inside its value,
\* a contenteditable element with a range that may reach past its text, and an
\* element that is not editable
EditCalls ==
  {[element |-> TextArea(v, a, b), startIndex |-> s, endIndex |-> e, replacement |-> r] :
     v \in Values, a \in 0..3, b \in 0..3, s \in 0..MaxIndex, e \in 0..MaxIndex,
     r \in Replacements}
  \cup {[element |-> ContentEditable(n), startIndex |-> s, endIndex |-> e, replacement |-> r] :
     n \in NodeLists, s \in 0..MaxIndex, e \in 0..MaxIndex, r \in Replacements}
  \cup {[element |-> PlainElement, startIndex |-> 0, endIndex |-> 1, replacement |-> "X"]}

ValidEditCalls ==
  {c \in EditCalls :
     /\ c.startIndex <= c.endIndex
     /\ c.element.selectionStart <= c.element.selectionEnd
     /\ c.element.selectionEnd <= Len(c.element.value)
     /\ c.element.kind = "textarea" => c.endIndex <= Len(c.element.value)}

InitReplace(calls) ==
  /\ \E c \in calls :
       /\ rElement = c.element
       /\ rStart = c.startIndex
       /\ rEnd = c.endIndex
       /\ rReplacement = c.replacement
  /\ rOut = NoEdit
  /\ rPhase = "input"

NoCall == [element |-> PlainElement, startIndex |-> 0, endIndex |-> 1, replacement |-> "X"]

\* the corrections a proofread of "abcdef" may leave on the element: replacements
\* longer, shorter and as long as their range, ranges that share a start or
\* overlap, and one that empties the text
ProposedCorrections ==
  {Corr(0, 1, "XY"), Corr(1, 3, ""), Corr(1, 2, "X"), Corr(3, 5, "XYZ"), Corr(0, 6, "")}

\* the objects of a list: the k-th correction is object k
Identified(list) ==
  [k \in 1..Len(list) |->
     [id |-> k, startIndex |-> list[k].startIndex, endIndex |-> list[k].endIndex,
      correction |-> list[k].correction]]

ProposedLists == UNION {[1..n -> ProposedCorrections] : n \in 1..MaxListed}

InitApply(lists) ==
  /\ aText = "abcdef"
  /\ \E list \in lists : aCorrections = Identified(list)
  /\ aPreviousText = "abcdef"
  /\ aProofreads = 0
  /\ aLast = [kind |-> "none", seq |-> 0]

\* the elements registered with the service and the text the controller reads
Surfaces == {1, 2}
SurfaceText(element) == IF element = 1 THEN "abcd" ELSE "xyz"

NoSelection == [has |-> FALSE, start |-> 0, end |-> 0]
Sel(s, e) == [has |-> TRUE, start |-> s, end |-> e]

NoResult == [correctedInput |-> "", corrections |-> <<>>]
IdleRun == [phase |-> "idle", element |-> 0, selection |-> NoSelection, sent |-> "",
            detection |-> "none", language |-> ""]

InitService ==
  /\ svcDetector = FALSE
  /\ svcInitialized = FALSE
  /\ svcQueue = <<>>
  /\ svcRun = IdleRun
  /\ svcMessages = [e \in Surfaces |-> <<>>]
  /\ lastProofreaderBusy = FALSE
  /\ svcBusyLog = <<>>
  /\ svcInFlight = [e \in Surfaces |-> 0]
  /\ svcMicrotasks = <<>>
  /\ svcScheduled = <<>>
  /\ svcCalls = 0
  /\ svcLast = [seq |-> 0]

CacheKeys == {"en", "fr"}

Requests == 1..MaxRequests

NewRequest == [phase |-> "new", key |-> "", service |-> 0]

InitProxy ==
  /\ proofreaderServices = [k \in CacheKeys |-> 0]
  /\ activeOperations = 0
  /\ pRequests = [r \in Requests |-> NewRequest]
  /\ pReturned = [request |-> 0]
  /\ pInstances = <<>>
  /\ pResets = 0
  /\ pSuspends = 0
  /\ pDeferred = FALSE
  /\ pLast = [seq |-> 0]

NoOperation == [active |-> FALSE, text |-> ""]

InitManager ==
  /\ mText = "ab"
  /\ mCorrections = <<>>
  /\ mPreviousText = ""
  /\ enabledCorrectionTypes = {}
  /\ mQueue = <<>>
  /\ mRun = NoOperation
  /\ mCalls = 0
  /\ mEdits = 0
  /\ mLast = [seq |-> 0]

\* the elements of the page: a div (1) holding a textarea (2), and a
\* contenteditable div (3) holding a text input (4)
DomNodes == 1..4

Identifiers == 1..MaxIds

InitTracker ==
  /\ registeredElements = {}
  /\ elementIds = [e \in DomNodes |-> 0]
  /\ elementLookup = [id \in Identifiers |-> 0]
  /\ tCreated = 0
  /\ tGiven = [e \in DomNodes |-> {}]
  /\ tAttached = {}
  /\ tLast = [seq |-> 0]

\* every component as its constructor leaves it
Init ==
  /\ InitQueue
  /\ InitDebounce
  /\ InitBackground
  /\ InitIssues
  /\ InitIds({<<>>})
  /\ InitReplace({NoCall})
  /\ InitApply({<<Corr(0, 1, "XY")>>})
  /\ InitService
  /\ InitProxy
  /\ InitManager
  /\ InitTracker

\* the same, for each list of corrections an element may be given
InitAnyList ==
  /\ InitQueue
  /\ InitDebounce
  /\ InitBackground
  /\ InitIssues
  /\ InitIds(AllCorrectionLists)
  /\ InitReplace({NoCall})
  /\ InitApply({<<Corr(0, 1, "XY")>>})
  /\ InitService
  /\ InitProxy
  /\ InitManager
  /\ InitTracker

\* corrections to look up: two on the same offsets, an insertion, a reversed
\* range, a deletion, and one over the whole text
LookupCorrections ==
  {Corr(0, 1, "x"), Corr(0, 1, "y"), Corr(1, 1, "x"), Corr(1, 0, "x"), Corr(1, 2, ""),
   Corr(0, 2, "x")}
LookupLists == UNION {[1..n -> LookupCorrections] : n \in 0..MaxCorrections}

\* the same, for each of these lists
InitAnyLookup ==
  /\ InitQueue
  /\ InitDebounce
  /\ InitBackground
  /\ InitIssues
  /\ InitIds(LookupLists)
  /\ InitReplace({NoCall})
  /\ InitApply({<<Corr(0, 1, "XY")>>})
  /\ InitService
  /\ InitProxy
  /\ InitManager
  /\ InitTracker

\* the same, for each call of replaceTextWithUndo
InitAnyEdit ==
  /\ InitQueue
  /\ InitDebounce
  /\ InitBackground
  /\ InitIssues
  /\ InitIds({<<>>})
  /\ InitReplace(ValidEditCalls)
  /\ InitApply({<<Corr(0, 1, "XY")>>})
  /\ InitService
  /\ InitProxy
  /\ InitManager
  /\ InitTracker

\* the same, for each list of corrections found on the element
InitAnyProposal ==
  /\ InitQueue
  /\ InitDebounce
  /\ InitBackground
  /\ InitIssues
  /\ InitIds({<<>>})
  /\ InitReplace({NoCall})
  /\ InitApply(ProposedLists)
  /\ InitService
  /\ InitProxy
  /\ InitManager
  /\ InitTracker

\* ------------------------------------------------------------------ AsyncQueue

\* resolve(result) / reject(error) of the wrapper: operation i yields its own
\* result i or its own error i
Settled(i, res) ==
  IF res = "ok" THEN [state |-> "resolved", value |-> i]
                ELSE [state |-> "rejected", value |-> i]

size == Len(queue)

\* the early return of processQueue(): nothing to do, or a loop is already active
ProcessQueueSkipsUnguarded(proc, q) == Len(q) = 0
ProcessQueueSkips(proc, q) == proc \/ Len(q) = 0

\* queue.shift() followed by the synchronous part of the wrapper: operation() is
\* invoked; when it throws synchronously the wrapper's catch rejects at once and
\* the wrapper returns, otherwise the wrapper suspends on the operation's promise
ShiftAndInvoke(q, thr) ==
  LET h == Head(q) IN
  /\ queue' = Tail(q)
  /\ pqAwait' = h
  /\ started' = Append(started, h)
  /\ opState' = [opState EXCEPT ![h] = IF thr THEN "done" ELSE "running"]
  /\ outcome' = [outcome EXCEPT ![h] = IF thr THEN "err" ELSE @]
  /\ promise' = [promise EXCEPT ![h] = IF thr THEN Settled(h, "err") ELSE @]

\* enqueue(operation): push the wrapper, then call processQueue()
Enqueue(thr) ==
  /\ UNCHANGED qRest
  /\ nextOp <= MaxOps
  /\ nextOp' = nextOp + 1
  /\ LET q1 == Append(queue, nextOp) IN
     IF ProcessQueueSkips(processing, q1)
     THEN /\ queue' = q1
          /\ opState' = [opState EXCEPT ![nextOp] = "queued"]
          /\ UNCHANGED <<processing, pqAwait, outcome, promise, started>>
     ELSE /\ processing' = TRUE
          /\ ShiftAndInvoke(q1, thr)

\* the promise operation() returned settles (resolved or rejected)
OperationSettles(i, res) ==
  /\ UNCHANGED qRest
  /\ opState[i] = "running"
  /\ opState' = [opState EXCEPT ![i] = "settled"]
  /\ outcome' = [outcome EXCEPT ![i] = res]
  /\ UNCHANGED <<queue, processing, pqAwait, promise, started, nextOp>>

\* a wrapper without try/catch: a rejection escapes, the enqueue promise stays
\* pending and processQueue() dies on its await with processing still true
WrapperResumesNoCatch(i) ==
  /\ UNCHANGED qRest
  /\ opState[i] = "settled"
  /\ IF outcome[i] = "ok"
     THEN /\ promise' = [promise EXCEPT ![i] = Settled(i, "ok")]
          /\ opState' = [opState EXCEPT ![i] = "done"]
          /\ UNCHANGED pqAwait
     ELSE /\ opState' = [opState EXCEPT ![i] = "escaped"]
          /\ pqAwait' = 0
          /\ UNCHANGED promise
  /\ UNCHANGED <<queue, processing, outcome, started, nextOp>>

\* the wrapper resumes after `await operation()`: resolve(result) or, in the
\* catch, reject(error); the wrapper's own promise is then fulfilled
WrapperResumes(i) ==
  /\ UNCHANGED qRest
  /\ opState[i] = "settled"
  /\ promise' = [promise EXCEPT ![i] = Settled(i, outcome[i])]
  /\ opState' = [opState EXCEPT ![i] = "done"]
  /\ UNCHANGED <<queue, processing, pqAwait, outcome, started, nextOp>>

\* a processQueue() without the loop: it ends after one wrapper, whatever waits
ProcessQueueResumesOnce(thr) ==
  /\ UNCHANGED qRest
  /\ pqAwait # 0
  /\ opState[pqAwait] = "done"
  /\ processing' = FALSE
  /\ pqAwait' = 0
  /\ UNCHANGED <<queue, opState, outcome, promise, started, nextOp>>

\* processQueue() resumes after `await operation()`: the while loop takes the
\* next wrapper, or ends and resets processing
ProcessQueueResumes(thr) ==
  /\ UNCHANGED qRest
  /\ pqAwait # 0
  /\ opState[pqAwait] = "done"
  /\ IF Len(queue) > 0
     THEN /\ ShiftAndInvoke(queue, thr)
          /\ UNCHANGED <<processing, nextOp>>
     ELSE /\ processing' = FALSE
          /\ pqAwait' = 0
          /\ UNCHANGED <<queue, opState, outcome, promise, started, nextOp>>

\* a clear() that empties a copy of the array: the wrappers stay in the queue
ClearCopy ==
  /\ UNCHANGED qRest
  /\ opState' = [i \in Ops |-> IF opState[i] = "queued" THEN "dropped" ELSE opState[i]]
  /\ UNCHANGED <<queue, processing, pqAwait, outcome, promise, started, nextOp>>

\* clear(): the waiting wrappers are forgotten
Clear ==
  /\ UNCHANGED qRest
  /\ queue' = <<>>
  /\ opState' = [i \in Ops |-> IF opState[i] = "queued" THEN "dropped" ELSE opState[i]]
  /\ UNCHANGED <<processing, pqAwait, outcome, promise, started, nextOp>>

QueueProgress ==
  \/ \E i \in Ops, res \in {"ok", "err"} : OperationSettles(i, res)
  \/ \E i \in Ops : WrapperResumes(i)
  \/ \E thr \in BOOLEAN : ProcessQueueResumes(thr)

NextQueue ==
  \/ \E thr \in BOOLEAN : Enqueue(thr)
  \/ \E i \in Ops, res \in {"ok", "err"} : OperationSettles(i, res)
  \/ \E i \in Ops : WrapperResumes(i)
  \/ \E thr \in BOOLEAN : ProcessQueueResumes(thr)
  \/ Clear

\* Microtasks always run, and the operations are taken to settle.
SpecQueue == Init /\ [][NextQueue]_vars /\ WF_vars(QueueProgress)

\* ------------------------------------------------------------------ AsyncQueue: claims
InProgress == {i \in Ops : opState[i] \in {"running", "settled"}}

\* C1: operations start in the order they were enqueued (an operation's id is
\* the ordinal of its enqueue call), an operation starts only after every
\* operation started before it has settled and its wrapper has finished, and at
\* most one operation is executing at any time.
C1_SerialFifo ==
  /\ \A k \in 1..(Len(started) - 1) :
       /\ started[k] < started[k + 1]
       /\ opState[started[k]] = "done"
       /\ promise[started[k]].state # "pending"
  /\ Cardinality(InProgress) <= 1

\* three operations started, the third while a fourth, enqueued during a run, waits
C1_Witness ==
  /\ Len(started) = 3
  /\ opState[3] = "running"
  /\ opState[4] = "queued"

\* C2: an operation that rejects or throws rejects its own enqueue promise with
\* its own error, every finished operation's promise carries that operation's
\* own result, and once an operation has failed every operation that is waiting
\* or running still finishes (unless clear() dropped it from the queue).
C2_FailureDoesNotBlock ==
  /\ [](\A i \in Ops : opState[i] = "done" =>
          /\ outcome[i] \in {"ok", "err"}
          /\ promise[i] = Settled(i, outcome[i]))
  /\ \A i \in Ops : \A j \in Ops :
       (i < j /\ outcome[i] = "err" /\ opState[j] \in {"queued", "running", "settled"})
         ~> (opState[j] \in {"done", "dropped"})

\* the first operation rejected, the second resolved, the third threw
C2_Witness ==
  /\ promise[1] = Settled(1, "err")
  /\ promise[2] = Settled(2, "ok")
  /\ promise[3] = Settled(3, "err")
  /\ started = <<1, 2, 3>>

\* ------------------------------------------------------------------ debounce
Args == {1, 2}

\* clearTimeout(id)
ClearTimeout(ts, id) == {t \in ts : t.id # id}

\* The host runs a timeout when its delay has elapsed, before anything that
\* happens at or after that instant: nothing else runs while a timer is due.
TimerDue == \E t \in timers : t.due <= dNow

UserEvents == Len(SelectSeq(dLog, LAMBDA e : e.kind # "invoke"))

\* a debounced() that forgets clearTimeout: the earlier timeout stays scheduled
DebouncedNoClear(arg) ==
  /\ UNCHANGED dRest
  /\ ~TimerDue
  /\ UserEvents < MaxEvents
  /\ timers' = timers \cup {[id |-> nextTimer, due |-> dNow + DelayMs, args |-> arg]}
  /\ timeoutId' = nextTimer
  /\ nextTimer' = nextTimer + 1
  /\ dLog' = Append(dLog, [kind |-> "call", t |-> dNow, arg |-> arg])
  /\ UNCHANGED dNow

\* a debounced() that keeps the window of the pending timeout instead of
\* restarting it
DebouncedNoRestart(arg) ==
  /\ UNCHANGED dRest
  /\ ~TimerDue
  /\ UserEvents < MaxEvents
  /\ LET old == {t \in timers : t.id = timeoutId}
         due == IF old = {} THEN dNow + DelayMs ELSE (CHOOSE t \in old : TRUE).due
     IN timers' = ClearTimeout(timers, timeoutId)
                    \cup {[id |-> nextTimer, due |-> due, args |-> arg]}
  /\ timeoutId' = nextTimer
  /\ nextTimer' = nextTimer + 1
  /\ dLog' = Append(dLog, [kind |-> "call", t |-> dNow, arg |-> arg])
  /\ UNCHANGED dNow

\* debounced(...args): clear the pending timeout, schedule a new one delayMs
\* from now that carries these arguments
Debounced(arg) ==
  /\ UNCHANGED dRest
  /\ ~TimerDue
  /\ UserEvents < MaxEvents
  /\ LET cleared == IF timeoutId # 0 THEN ClearTimeout(timers, timeoutId) ELSE timers
     IN timers' = cleared \cup {[id |-> nextTimer, due |-> dNow + DelayMs, args |-> arg]}
  /\ timeoutId' = nextTimer
  /\ nextTimer' = nextTimer + 1
  /\ dLog' = Append(dLog, [kind |-> "call", t |-> dNow, arg |-> arg])
  /\ UNCHANGED dNow

\* a cancel() that resets timeoutId and leaves the timeout scheduled
CancelKeepsTimer ==
  /\ UNCHANGED dRest
  /\ ~TimerDue
  /\ UserEvents < MaxEvents
  /\ timeoutId' = 0
  /\ dLog' = Append(dLog, [kind |-> "cancel", t |-> dNow, arg |-> 0])
  /\ UNCHANGED <<dNow, timers, nextTimer>>

\* debounced.cancel()
Cancel ==
  /\ UNCHANGED dRest
  /\ ~TimerDue
  /\ UserEvents < MaxEvents
  /\ IF timeoutId # 0
     THEN /\ timers' = ClearTimeout(timers, timeoutId)
          /\ timeoutId' = 0
     ELSE UNCHANGED <<timers, timeoutId>>
  /\ dLog' = Append(dLog, [kind |-> "cancel", t |-> dNow, arg |-> 0])
  /\ UNCHANGED <<dNow, nextTimer>>

\* the timeout callback: fn.apply(this, args); timeoutId = null
TimerFires ==
  \E t \in timers :
    /\ UNCHANGED dRest
    /\ t.due <= dNow
    /\ timers' = timers \ {t}
    /\ timeoutId' = 0
    /\ dLog' = Append(dLog, [kind |-> "invoke", t |-> dNow, arg |-> t.args])
    /\ UNCHANGED <<dNow, nextTimer>>

\* time passes
Tick ==
  /\ UNCHANGED dRest
  /\ ~TimerDue
  /\ dNow < MaxTime
  /\ dNow' = dNow + 1
  /\ UNCHANGED <<timeoutId, timers, nextTimer, dLog>>

NextDebounce ==
  \/ \E arg \in Args : Debounced(arg)
  \/ Cancel
  \/ TimerFires
  \/ Tick

SpecDebounce == Init /\ [][NextDebounce]_vars

\* ------------------------------------------------------------------ debounce: claims
LogIdx == 1..Len(dLog)
CallIdx == {k \in LogIdx : dLog[k].kind = "call"}
InvokeIdx == {m \in LogIdx : dLog[m].kind = "invoke"}
CancelIdx == {c \in LogIdx : dLog[c].kind = "cancel"}

\* the most recent call before position m of the log, the next call after k (0: none)
LastCallBefore(m) ==
  LET S == {k \in CallIdx : k < m} IN IF S = {} THEN 0 ELSE Max(S)
NextCallAfter(k) ==
  LET S == {n \in CallIdx : n > k} IN IF S = {} THEN 0 ELSE Min(S)

\* the invocations of fn between call k and the next call
InvocationsOf(k) == {m \in InvokeIdx : LastCallBefore(m) = k}

\* call k is followed by another call less than DelayMs later
Superseded(k) ==
  NextCallAfter(k) # 0 /\ dLog[NextCallAfter(k)].t - dLog[k].t < DelayMs

\* call k is the last call of its burst and the burst's window is over
BurstOver(k) ==
  /\ ~Superseded(k)
  /\ \/ NextCallAfter(k) # 0
     \/ dNow >= dLog[k].t + DelayMs /\ ~TimerDue

\* cancel() was called while call k was pending
CancelledCall(k) ==
  \E c \in CancelIdx :
    /\ c > k
    /\ NextCallAfter(k) # 0 => c < NextCallAfter(k)
    /\ dLog[c].t < dLog[k].t + DelayMs

\* C3: in a burst of calls, each less than DelayMs after the one before, no call
\* but the last leads to an invocation, and once the burst is over (and was not
\* cancelled) fn has been invoked exactly once for it, with the arguments of the
\* last call.
C3_BurstInvokesOnceWithLastArgs ==
  \A k \in CallIdx :
    /\ Superseded(k) => InvocationsOf(k) = {}
    /\ (BurstOver(k) /\ ~CancelledCall(k)) =>
         /\ Cardinality(InvocationsOf(k)) = 1
         /\ \A m \in InvocationsOf(k) : dLog[m].arg = dLog[k].arg

\* a burst of three calls with changing arguments, invoked once with the last
C3_Witness ==
  /\ Len(dLog) = 4
  /\ dLog[1].kind = "call" /\ dLog[1].arg = 1
  /\ dLog[2].kind = "call" /\ dLog[2].arg = 2 /\ dLog[2].t = dLog[1].t + 1
  /\ dLog[3].kind = "call" /\ dLog[3].arg = 1 /\ dLog[3].t = dLog[2].t + DelayMs - 1
  /\ dLog[4] = [kind |-> "invoke", t |-> dLog[3].t + DelayMs, arg |-> 1]

\* C4: every call restarts the window: a pending timeout is always due DelayMs
\* after the most recent call, and fn is invoked exactly DelayMs after the most
\* recent call, never earlier.
C4_WindowRestarts ==
  /\ \A m \in InvokeIdx :
       /\ LastCallBefore(m) # 0
       /\ dLog[m].t = dLog[LastCallBefore(m)].t + DelayMs
  /\ \A t \in timers :
       /\ CallIdx # {}
       /\ t.due = dLog[Max(CallIdx)].t + DelayMs

\* the scenario of the tests, one tick being 50 ms: calls at t=0 and t=50 with a
\* delay of 200 give one invocation, at t=250, with the second argument
C4_Witness ==
  /\ DelayMs = 4
  /\ dLog = << [kind |-> "call", t |-> 0, arg |-> 1],
               [kind |-> "call", t |-> 1, arg |-> 2],
               [kind |-> "invoke", t |-> 5, arg |-> 2] >>
  /\ dNow > 5

\* C5: after cancel() nothing is pending, fn is never invoked for a call made
\* before the cancel, and a call made after it is invoked as usual once its
\* window is over.
C5_CancelDropsPending ==
  /\ \A c \in CancelIdx :
       /\ \A m \in InvokeIdx : m > c => LastCallBefore(m) > c
       /\ c = Len(dLog) => (timers = {} /\ timeoutId = 0)
  /\ \A k \in CallIdx :
       ((\E c \in CancelIdx : c < k) /\ BurstOver(k) /\ ~CancelledCall(k))
         => InvocationsOf(k) # {}

\* a pending call was cancelled and time went by; the call after it was invoked
C5_Witness ==
  /\ Len(dLog) = 4
  /\ dLog[1].kind = "call"
  /\ dLog[2].kind = "cancel" /\ dLog[2].t < dLog[1].t + DelayMs
  /\ dLog[3].kind = "call" /\ dLog[3].t > dLog[1].t + DelayMs
  /\ dLog[4].kind = "invoke" /\ dLog[4].arg = dLog[3].arg

\* ------------------------------------------------------------------ background worker
\* message.payload.revision ?? 0: a payload without revision counts as revision 0
Revs == 0..MaxRev

\* a payload is told apart by its revision and the issues it lists (their total)
IssueTotals == {0, 2}

\* sender.tab?.id is no number: 0
Senders ==
  [tab : Tabs, url : {"web"}]
    \cup {[tab |-> 0, url |-> "web"], [tab |-> 1, url |-> "extension"],
          [tab |-> 1, url |-> "options"]}

\* countIssues(state)
countIssues(state) == IF state.has THEN state.issues ELSE 0

\* the badge text for a total: busy shows a blank for none
BadgeText(total, busy) ==
  IF total > 0 THEN (IF total > 99 THEN "99+" ELSE ToString(total))
  ELSE IF busy THEN " " ELSE ""

\* existingState?.revision ?? 0
CurrentRevision(t) == IF issuesByTab[t].has THEN issuesByTab[t].revision ELSE 0

\* the sender is a tab, and no extension page other than the options page
AcceptedSender(sender) ==
  /\ sender.tab # 0
  /\ sender.url # "extension"

Handled(kind, tab, rev, issues) ==
  [kind |-> kind, seq |-> bLast.seq + 1, tab |-> tab, rev |-> rev, issues |-> issues,
   before |-> IF kind = "update" THEN issuesByTab[tab] ELSE NoState]

\* a handler that takes every update, and one that also drops an equal revision
IsOutOfOrderNever(incomingRevision, currentRevision) == FALSE
IsOutOfOrderOrDuplicate(incomingRevision, currentRevision) ==
  incomingRevision <= currentRevision

\* if (incomingRevision < currentRevision) return
IsOutOfOrder(incomingRevision, currentRevision) == incomingRevision < currentRevision

\* enqueueBadgeUpdate(tabId, payloadState): chained on the tab's queue
enqueueBadgeUpdate(q, t, payloadState) == [q EXCEPT ![t] = Append(@, payloadState)]

\* the update enqueued for tab t is the next one of the tab, by ordinal
Ticketed(t) ==
  [badgeHist EXCEPT ![t].issued = @ + 1,
                    ![t].tickets = Append(@, badgeHist[t].issued + 1)]

\* handleIssuesUpdate(message, sender)
HandleIssuesUpdate(sender, rev, issues) ==
  /\ UNCHANGED bRest
  /\ bLast.seq < MaxMsgs
  /\ bLast' = IF AcceptedSender(sender) THEN Handled("update", sender.tab, rev, issues)
              ELSE Handled("ignored", 0, 0, 0)
  /\ IF ~AcceptedSender(sender) \/ IsOutOfOrder(rev, CurrentRevision(sender.tab))
     THEN UNCHANGED <<issuesByTab, badgeQueue, badgeHist>>
     ELSE LET state == [has |-> TRUE, issues |-> issues, revision |-> rev] IN
          /\ issuesByTab' = [issuesByTab EXCEPT ![sender.tab] = state]
          /\ badgeQueue' = enqueueBadgeUpdate(badgeQueue, sender.tab, state)
          /\ badgeHist' = Ticketed(sender.tab)
  /\ UNCHANGED <<badgeRun, busyTabs, busyTimers, badge, baLast>>

\* chrome.tabs.onRemoved, and chrome.tabs.onUpdated with status loading
TabReset(t, how) ==
  /\ UNCHANGED bRest
  /\ bLast.seq < MaxMsgs
  /\ bLast' = Handled(how, t, 0, 0)
  /\ issuesByTab' = [issuesByTab EXCEPT ![t] = NoState]
  /\ busyTabs' = busyTabs \ {t}
  /\ badgeQueue' = enqueueBadgeUpdate(badgeQueue, t, NoState)
  /\ badgeHist' = Ticketed(t)
  /\ UNCHANGED <<badgeRun, busyTimers, badge, baLast>>

\* handleProofreaderStateMessage(message, sender)
HandleProofreaderState(sender, busy) ==
  /\ UNCHANGED bRest
  /\ bLast.seq < MaxMsgs
  /\ bLast' = Handled("busy", 0, 0, 0)
  /\ IF ~AcceptedSender(sender)
     THEN UNCHANGED <<busyTabs, busyTimers, badge>>
     ELSE IF busy
     THEN /\ busyTabs' = busyTabs \cup {sender.tab}
          /\ badge' = [badge EXCEPT
               ![sender.tab] = BadgeText(countIssues(issuesByTab[sender.tab]), TRUE)]
          /\ busyTimers' = busyTimers \cup {sender.tab}
     ELSE /\ busyTabs' = busyTabs \ {sender.tab}
          /\ UNCHANGED <<busyTimers, badge>>
  /\ UNCHANGED <<issuesByTab, badgeQueue, badgeRun, badgeHist, baLast>>

\* the 120 ms timeout of handleProofreaderStateMessage
BusyTimerFires(t) ==
  /\ UNCHANGED bRest
  /\ t \in busyTimers
  /\ busyTimers' = busyTimers \ {t}
  /\ badge' = IF t \in busyTabs
              THEN [badge EXCEPT ![t] = BadgeText(countIssues(issuesByTab[t]), TRUE)]
              ELSE badge
  /\ UNCHANGED <<issuesByTab, badgeQueue, badgeRun, busyTabs, bLast, badgeHist, baLast>>

\* whether a state is there, and its revision
Revision(state) == [has |-> state.has, revision |-> state.revision]

\* an applyBadgeUpdate that skips nothing
IsStaleBadgeUpdateNever(payloadState, latestState) == FALSE

\* payloadState && latestState && payloadState !== latestState &&
\* payloadState.revision < latestState.revision
IsStaleBadgeUpdate(payloadState, latestState) ==
  /\ payloadState.has
  /\ latestState.has
  /\ payloadState.revision < latestState.revision

\* an applyBadgeUpdate that clears whatever is stored
IsClearSkippedNever(payloadState, latestState) == FALSE

\* !payloadState && latestState
IsClearSkipped(payloadState, latestState) == ~payloadState.has /\ latestState.has

\* a chain whose next link waits for an update that ran to completion
ChainReadyAfterSuccess(run, ok) == IF ok THEN NoRun ELSE run

\* enqueueBadgeUpdate's .catch after applyBadgeUpdate: the tab's promise
\* resolves whether the update completed or rejected
ChainReady(run, ok) == NoRun

\* applyBadgeUpdate(tabId, payloadState) up to its first await: the head of the
\* tab's chain runs once the update before it has settled
BadgeUpdateStarts(t) ==
  /\ UNCHANGED bRest
  /\ ~badgeRun[t].active
  /\ Len(badgeQueue[t]) > 0
  /\ LET payloadState == Head(badgeQueue[t])
         latestState == issuesByTab[t]
         activeState == IF payloadState.has THEN payloadState ELSE latestState
         skipped == \/ IsStaleBadgeUpdate(payloadState, latestState)
                    \/ IsClearSkipped(payloadState, latestState)
     IN /\ badgeQueue' = [badgeQueue EXCEPT ![t] = Tail(@)]
        /\ badgeRun' = IF skipped THEN badgeRun
                       ELSE [badgeRun EXCEPT
                               ![t] = [active |-> TRUE, total |-> countIssues(activeState)]]
        /\ badgeHist' = [badgeHist EXCEPT
                           ![t].started = @ + 1,
                           ![t].settled = IF skipped THEN @ + 1 ELSE @,
                           ![t].skips = IF skipped THEN @ + 1 ELSE @,
                           ![t].failed = IF skipped THEN FALSE ELSE @,
                           ![t].tickets = Tail(@)]
        /\ baLast' = [seq |-> 1, tab |-> t, ran |-> ~skipped,
                      payloadState |-> Revision(payloadState),
                      latestState |-> Revision(latestState)]
  /\ UNCHANGED <<issuesByTab, busyTabs, busyTimers, badge, bLast>>

\* applyBadgeUpdate after the await: the badge is set for the total computed
\* before it, as busy text when the tab is busy by now; a chrome.action call
\* that rejects (ok = FALSE) leaves the badge text as it was
BadgeUpdateFinishes(t, ok) ==
  /\ UNCHANGED bRest
  /\ badgeRun[t].active
  /\ badgeRun' = [badgeRun EXCEPT ![t] = ChainReady(@, ok)]
  /\ badge' = IF ok THEN [badge EXCEPT ![t] = BadgeText(badgeRun[t].total, t \in busyTabs)]
              ELSE badge
  /\ badgeHist' = [badgeHist EXCEPT ![t].settled = @ + 1, ![t].failed = ~ok]
  /\ UNCHANGED <<issuesByTab, badgeQueue, busyTabs, busyTimers, bLast, baLast>>

NextBackground ==
  \/ \E sender \in Senders, rev \in Revs, issues \in IssueTotals :
       HandleIssuesUpdate(sender, rev, issues)
  \/ \E t \in Tabs, how \in {"removed", "loading"} : TabReset(t, how)
  \/ \E sender \in Senders, busy \in BOOLEAN : HandleProofreaderState(sender, busy)
  \/ \E t \in Tabs : BusyTimerFires(t)
  \/ \E t \in Tabs : BadgeUpdateStarts(t)
  \/ \E t \in Tabs, ok \in BOOLEAN : BadgeUpdateFinishes(t, ok)

SpecBackground == Init /\ [][NextBackground]_vars

\* ------------------------------------------------------------------ background worker: claims
\* this step handled an issues update of an accepted sender
UpdateStep == bLast'.seq = bLast.seq + 1 /\ bLast'.kind = "update"

\* C6: an issues update whose revision is lower than the revision stored for
\* its tab changes neither the stored payload and revision of any tab nor the
\* queued badge updates.
C6_StaleUpdateIgnored ==
  [][(UpdateStep /\ issuesByTab[bLast'.tab].has
        /\ bLast'.rev < issuesByTab[bLast'.tab].revision)
       => /\ issuesByTab' = issuesByTab
          /\ badgeQueue' = badgeQueue]_vars

\* an update with a lower revision and a different payload has just been handled
C6_Witness ==
  /\ bLast.kind = "update"
  /\ issuesByTab[bLast.tab].has
  /\ bLast.rev < issuesByTab[bLast.tab].revision
  /\ bLast.issues # issuesByTab[bLast.tab].issues
  /\ bLast.before = issuesByTab[bLast.tab]

\* C7 as claimed: an update whose revision equals the stored revision of its
\* tab does not replace the stored state (taken for the revisions an
\* IssueManager emits, 1 and up).
C7_DuplicateDropped ==
  [][(UpdateStep /\ issuesByTab[bLast'.tab].has /\ bLast'.rev >= 1
        /\ bLast'.rev = issuesByTab[bLast'.tab].revision)
       => issuesByTab' = issuesByTab]_vars

\* C7 as amended: the revision stored for a tab never decreases from one issues
\* update to the next, and an update whose revision is not lower than the stored
\* one (equal included) replaces the stored state with its own payload and
\* revision and queues a badge update for it.
C7_AppliedInRevisionOrder ==
  [][UpdateStep =>
       LET t == bLast'.tab
           state == [has |-> TRUE, issues |-> bLast'.issues, revision |-> bLast'.rev]
       IN /\ issuesByTab'[t].has
          /\ issuesByTab'[t].revision >= CurrentRevision(t)
          /\ bLast'.rev >= CurrentRevision(t) =>
               /\ issuesByTab'[t] = state
               /\ badgeQueue'[t] = Append(badgeQueue[t], state)
          /\ \A u \in Tabs \ {t} :
               issuesByTab'[u] = issuesByTab[u] /\ badgeQueue'[u] = badgeQueue[u]]_vars

\* an update with the stored revision and another payload has replaced the state
C7_Witness ==
  /\ bLast.kind = "update"
  /\ bLast.before.has
  /\ bLast.before.revision = bLast.rev
  /\ bLast.before.issues # bLast.issues
  /\ issuesByTab[bLast.tab] = [has |-> TRUE, issues |-> bLast.issues, revision |-> bLast.rev]

\* ------------------------------------------------------------------ IssueManager
\* the lists setCorrections is called with: none, two corrections on the same
\* offsets, an empty range before one that yields no issue
CorrectionLists ==
  { <<>>,
    <<Corr(0, 2, "x"), Corr(0, 2, "y")>>,
    <<Corr(1, 1, "x"), Corr(2, 3, "")>> }

\* a message is told apart by its text and severity: two variants per code
Variants == {1, 2}

\* options.getElementText(element)
ElementText(e) == IF e = 1 THEN "ab" ELSE ""

\* options.getElementId(element)
ElementId(e) == "el-" \o ToString(e)

\* corrections.filter((correction) => correction.endIndex > correction.startIndex)
ValidCorrections(corrections) ==
  SelectSeq(corrections, LAMBDA c : c.endIndex > c.startIndex)

\* an id without the ordinal
buildIssueIdNoOrdinal(correction, index) ==
  ToString(correction.startIndex) \o ":" \o ToString(correction.endIndex)

\* `${correction.startIndex}:${correction.endIndex}:${index}`
buildIssueId(correction, index) ==
  ToString(correction.startIndex) \o ":" \o ToString(correction.endIndex)
    \o ":" \o ToString(index)

\* updateElementCorrectionLookup: lookup.set(id, correction) for each valid
\* correction in order, a later set of the same id replacing the earlier one
updateElementCorrectionLookup(corrections) ==
  LET valid == ValidCorrections(corrections)
      ids == {buildIssueId(valid[k], k - 1) : k \in 1..Len(valid)}
  IN [id \in ids |->
        valid[Max({k \in 1..Len(valid) : buildIssueId(valid[k], k - 1) = id})]]

\* extractOriginalText(text, correction)
extractOriginalText(text, correction) ==
  IF Len(text) = 0 THEN ""
  ELSE LET maxIndex == Len(text)
           lo == IF correction.startIndex < maxIndex THEN correction.startIndex ELSE maxIndex
           safeStart == IF lo > 0 THEN lo ELSE 0
           hi == IF correction.endIndex < maxIndex THEN correction.endIndex ELSE maxIndex
           safeEnd == IF hi > safeStart THEN hi ELSE safeStart
       IN SubSeq(text, safeStart + 1, safeEnd)

\* toSidepanelIssue(elementId, correction, originalText, issueId)
toSidepanelIssue(elementId, correction, originalText, issueId) ==
  [id |-> issueId, elementId |-> elementId, originalText |-> originalText,
   replacementText |-> correction.correction]

\* the issues emitIssuesUpdate builds for one element
BuildIssues(e, corrections) ==
  LET valid == ValidCorrections(corrections)
      all == [k \in 1..Len(valid) |->
                toSidepanelIssue(ElementId(e), valid[k],
                                 extractOriginalText(ElementText(e), valid[k]),
                                 buildIssueId(valid[k], k - 1))]
  IN SelectSeq(all, LAMBDA issue :
                 Len(issue.originalText) > 0 \/ Len(issue.replacementText) > 0)

\* getElementMessages(element): the codes with a message
GroupMessages(e) == {c \in Codes : elementMessages[e][c] # 0}

\* the groups of the payload: the elements with issues or messages
PayloadElements ==
  {e \in Elements :
     Len(BuildIssues(e, elementCorrections[e])) > 0 \/ GroupMessages(e) # {}}

RECURSIVE SumIssues(_)
SumIssues(S) ==
  IF S = {} THEN 0
  ELSE LET e == Min(S)
       IN Len(BuildIssues(e, elementCorrections[e])) + SumIssues(S \ {e})

\* elements.reduce((count, group) => count + group.issues.length, 0)
issueTotal == SumIssues(PayloadElements)

\* a revision that is not advanced
NextRevisionStale(r) == r

\* ++this.issuesRevision
NextRevision(r) == r + 1

\* emitIssuesUpdate(): the payload is built from the store as it is now and sent
\* with the next revision; a clear-badge request follows when it lists no issue
EmitIssuesUpdate(kind) ==
  /\ issuesRevision' = NextRevision(issuesRevision)
  /\ emissions' = Append(emissions,
       [revision |-> NextRevision(issuesRevision), kind |-> kind, inJob |-> inJob,
        clearBadge |-> issueTotal = 0])

\* room for one more emission, sent or queued
Room == Len(emissions) + Len(microtasks) < MaxEmit

\* scheduleIssuesUpdate(flushImmediately)
ScheduleIssuesUpdate(flushImmediately) ==
  IF flushImmediately
  THEN /\ pendingIssuesUpdate' = FALSE
       /\ EmitIssuesUpdate("flush")
       /\ UNCHANGED <<microtasks, jobCalls>>
  ELSE /\ jobCalls' = IF jobCalls < 2 THEN jobCalls + 1 ELSE 2
       /\ IF pendingIssuesUpdate
          THEN UNCHANGED <<pendingIssuesUpdate, microtasks, issuesRevision, emissions>>
          ELSE /\ pendingIssuesUpdate' = TRUE
               /\ microtasks' = Append(microtasks, TRUE)
               /\ UNCHANGED <<issuesRevision, emissions>>

NoSchedule ==
  UNCHANGED <<pendingIssuesUpdate, microtasks, issuesRevision, emissions, jobCalls>>

\* a run of synchronous code begins: a task, or a continuation queued earlier
BeginJob ==
  /\ UNCHANGED iRest
  /\ ~inJob
  /\ inJob' = TRUE
  /\ jobClean' = (microtasks = <<>>)
  /\ jobCalls' = 0
  /\ jobDeferred' = 0
  /\ microtasks' = [k \in 1..Len(microtasks) |-> FALSE]
  /\ UNCHANGED <<elementCorrections, elementIssueLookup, elementMessages, issuesRevision,
                 pendingIssuesUpdate, emissions>>

\* the synchronous code returns
EndJob ==
  /\ UNCHANGED iRest
  /\ inJob
  /\ inJob' = FALSE
  /\ UNCHANGED <<elementCorrections, elementIssueLookup, elementMessages, issuesRevision,
                 pendingIssuesUpdate, microtasks, emissions, jobClean, jobCalls, jobDeferred>>

\* setCorrections(element, corrections)
SetCorrections(e, corrections) ==
  /\ UNCHANGED iRest
  /\ inJob
  /\ elementCorrections' = [elementCorrections EXCEPT ![e] = corrections]
  /\ elementIssueLookup' = [elementIssueLookup EXCEPT
       ![e] = IF Len(corrections) = 0 THEN <<>>
              ELSE updateElementCorrectionLookup(corrections)]
  /\ NoSchedule
  /\ UNCHANGED <<elementMessages, inJob, jobClean, jobDeferred>>

\* setMessage(element, message)
SetMessage(e, code, variant) ==
  /\ UNCHANGED iRest
  /\ inJob
  /\ Room
  /\ IF elementMessages[e][code] = variant
     THEN UNCHANGED elementMessages /\ NoSchedule
     ELSE /\ elementMessages' = [elementMessages EXCEPT ![e][code] = variant]
          /\ ScheduleIssuesUpdate(FALSE)
  /\ UNCHANGED <<elementCorrections, elementIssueLookup, inJob, jobClean, jobDeferred>>

\* clearMessage(element, code?): code "" stands for no code given
ClearMessage(e, code) ==
  /\ UNCHANGED iRest
  /\ inJob
  /\ Room
  /\ IF GroupMessages(e) = {} \/ (code # "" /\ elementMessages[e][code] = 0)
     THEN UNCHANGED elementMessages /\ NoSchedule
     ELSE /\ elementMessages' = [elementMessages EXCEPT
               ![e] = [c \in Codes |-> IF code = "" \/ c = code THEN 0 ELSE @[c]]]
          /\ ScheduleIssuesUpdate(FALSE)
  /\ UNCHANGED <<elementCorrections, elementIssueLookup, inJob, jobClean, jobDeferred>>

\* clearState(element)
ClearState(e) ==
  /\ UNCHANGED iRest
  /\ inJob
  /\ elementCorrections' = [elementCorrections EXCEPT ![e] = <<>>]
  /\ elementIssueLookup' = [elementIssueLookup EXCEPT ![e] = <<>>]
  /\ elementMessages' = [elementMessages EXCEPT ![e] = [c \in Codes |-> 0]]
  /\ NoSchedule
  /\ UNCHANGED <<inJob, jobClean, jobDeferred>>

\* a caller's scheduleIssuesUpdate(flushImmediately)
CallSchedule(flushImmediately) ==
  /\ UNCHANGED iRest
  /\ inJob
  /\ Room
  /\ ScheduleIssuesUpdate(flushImmediately)
  /\ UNCHANGED <<elementCorrections, elementIssueLookup, elementMessages, inJob, jobClean,
                 jobDeferred>>

\* a caller's emitIssuesUpdate()
CallEmit ==
  /\ UNCHANGED iRest
  /\ inJob
  /\ Room
  /\ EmitIssuesUpdate("direct")
  /\ UNCHANGED <<elementCorrections, elementIssueLookup, elementMessages,
                 pendingIssuesUpdate, microtasks, inJob, jobClean, jobCalls, jobDeferred>>

\* the microtask scheduleIssuesUpdate queued runs, after the synchronous code
\* that was running when it was queued has returned
RunMicrotask ==
  /\ UNCHANGED iRest
  /\ ~inJob
  /\ Len(microtasks) > 0
  /\ microtasks' = Tail(microtasks)
  /\ pendingIssuesUpdate' = FALSE
  /\ EmitIssuesUpdate("deferred")
  /\ jobDeferred' = IF Head(microtasks) THEN jobDeferred + 1 ELSE jobDeferred
  /\ UNCHANGED <<elementCorrections, elementIssueLookup, elementMessages, inJob, jobClean,
                 jobCalls>>

NextIssues ==
  \/ BeginJob
  \/ EndJob
  \/ \E e \in Elements, corrections \in CorrectionLists : SetCorrections(e, corrections)
  \/ \E e \in Elements, code \in Codes, variant \in Variants : SetMessage(e, code, variant)
  \/ \E e \in Elements, code \in Codes \cup {""} : ClearMessage(e, code)
  \/ \E e \in Elements : ClearState(e)
  \/ \E flushImmediately \in BOOLEAN : CallSchedule(flushImmediately)
  \/ CallEmit
  \/ RunMicrotask

SpecIssues == Init /\ [][NextIssues]_vars

\* ------------------------------------------------------------------ IssueManager: claims
EmissionKinds == {emissions[k].kind : k \in 1..Len(emissions)}

\* C8: the k-th update an IssueManager sends, whether by a direct
\* emitIssuesUpdate, an immediate flush or a deferred microtask, carries
\* revision k: revisions start at 1 and grow by one per emission.
C8_RevisionsCountEmissions ==
  /\ \A k \in 1..Len(emissions) : emissions[k].revision = k
  /\ issuesRevision = Len(emissions)

\* three emissions, one of each kind
C8_Witness ==
  /\ Len(emissions) = 3
  /\ EmissionKinds = {"direct", "flush", "deferred"}

\* C9: once a job that began with no emission queued has returned and the
\* microtasks it queued have run, its non-immediate scheduleIssuesUpdate() calls
\* (one or several) have produced exactly one deferred emission; a deferred
\* emission never happens inside synchronous code, and an immediate flush always
\* does.
C9_OneDeferredEmissionPerJob ==
  /\ (~inJob /\ jobClean /\ microtasks = <<>>) =>
       jobDeferred = IF jobCalls > 0 THEN 1 ELSE 0
  /\ \A k \in 1..Len(emissions) :
       /\ emissions[k].kind = "deferred" => ~emissions[k].inJob
       /\ emissions[k].kind = "flush" => emissions[k].inJob

\* ------------------------------------------------------------------ issue ids
\* setCorrections(element, corrections) for the one element
StoreCorrections ==
  /\ UNCHANGED idRest
  /\ idPhase = "input"
  /\ idLookup' = IF Len(idInput) = 0 THEN <<>> ELSE updateElementCorrectionLookup(idInput)
  /\ idPhase' = "stored"
  /\ UNCHANGED <<idInput, idEmitted, idLast>>

\* emitIssuesUpdate(): the issues of the element's group
EmitElementIssues ==
  /\ UNCHANGED idRest
  /\ idPhase = "stored"
  /\ idEmitted' = BuildIssues(1, idInput)
  /\ idPhase' = "emitted"
  /\ UNCHANGED <<idInput, idLookup, idLast>>

\* the ids buildIssueId can give the corrections looked up, and an id it never
\* gives
IssueIds ==
  {buildIssueId(c, k) : c \in LookupCorrections, k \in 0..MaxCorrections} \cup {"none"}

Null == [has |-> FALSE, correction |-> Corr(0, 0, "")]
Found(correction) == [has |-> TRUE, correction |-> correction]

\* a getCorrection that goes by the offsets of the id alone
getCorrectionByOffsets(lookup, stored, corrections, issueId) ==
  LET valid == ValidCorrections(corrections)
      hits == {k \in 1..Len(valid) :
                 \E n \in 0..MaxCorrections : buildIssueId(valid[k], n) = issueId}
  IN IF ~stored \/ hits = {} THEN Null ELSE Found(valid[Min(hits)])

\* getCorrection(element, issueId): the lookup's entry if it has one; otherwise
\* the first stored valid correction whose rebuilt id is issueId; otherwise null.
\* stored: elementCorrections has an entry for the element.
getCorrection(lookup, stored, corrections, issueId) ==
  IF issueId \in DOMAIN lookup THEN Found(lookup[issueId])
  ELSE IF ~stored THEN Null
  ELSE LET valid == ValidCorrections(corrections)
           hits == {k \in 1..Len(valid) : buildIssueId(valid[k], k - 1) = issueId}
       IN IF hits = {} THEN Null ELSE Found(valid[Min(hits)])

\* a caller's getCorrection(element, issueId)
GetCorrection(issueId) ==
  /\ UNCHANGED idRest
  /\ idLast' = [seq |-> 1, id |-> issueId, phase |-> idPhase,
                result |-> getCorrection(idLookup,
                                         idPhase # "input" /\ Len(idInput) > 0,
                                         idInput, issueId)]
  /\ UNCHANGED <<idInput, idLookup, idEmitted, idPhase>>

NextIds ==
  \/ StoreCorrections
  \/ EmitElementIssues

SpecIssueIds == InitAnyList /\ [][NextIds]_vars

\* ------------------------------------------------------------------ issue ids: claims
\* C10: the lookup built for a stored list has one entry per correction with
\* endIndex > startIndex, the entry under the id of the k-th of them (ordinal
\* k - 1) being that correction, so the ids are pairwise distinct also when
\* offsets repeat; the ids emitIssuesUpdate builds anew from the same list are
\* pairwise distinct too and each names, in the lookup, the correction its issue
\* was built from.
C10_IssueIdsDistinct ==
  LET valid == ValidCorrections(idInput) IN
  /\ idPhase \in {"stored", "emitted"} =>
       /\ Cardinality(DOMAIN idLookup) = Len(valid)
       /\ \A k \in 1..Len(valid) :
            LET id == ToString(valid[k].startIndex) \o ":" \o ToString(valid[k].endIndex)
                        \o ":" \o ToString(k - 1)
            IN id \in DOMAIN idLookup /\ idLookup[id] = valid[k]
  /\ idPhase = "emitted" =>
       /\ \A i \in 1..Len(idEmitted) : \A j \in 1..Len(idEmitted) :
            i # j => idEmitted[i].id # idEmitted[j].id
       /\ \A i \in 1..Len(idEmitted) :
            /\ idEmitted[i].id \in DOMAIN idLookup
            /\ idLookup[idEmitted[i].id].correction = idEmitted[i].replacementText

\* two corrections on the same offsets got the ids 0:2:0 and 0:2:1
C10_Witness ==
  /\ idPhase = "emitted"
  /\ Len(idInput) = 2
  /\ idInput[1].startIndex = idInput[2].startIndex
  /\ idInput[1].endIndex = idInput[2].endIndex
  /\ idInput[1].correction # idInput[2].correction
  /\ Len(idEmitted) = 2
  /\ idEmitted[1].id = "0:2:0"
  /\ idEmitted[2].id = "0:2:1"

\* ------------------------------------------------------------------ replaceTextWithUndo
\* text.substring(a, b) for a <= b, both clamped to the text as substring does
Substring(text, a, b) ==
  LET lo == Min({Max({a, 0}), Len(text)})
      hi == Min({Max({b, 0}), Len(text)})
  IN IF lo >= hi THEN "" ELSE SubSeq(text, lo + 1, hi)

\* element.setRangeText(replacement, start, end, 'end'): the new value
setRangeTextInsertOnly(value, replacement, start, end) ==
  Substring(value, 0, start) \o replacement \o Substring(value, start, Len(value))
setRangeText(value, replacement, start, end) ==
  Substring(value, 0, start) \o replacement \o Substring(value, end, Len(value))

\* newStart / newEnd: where an endpoint of the original selection goes
AdjustEndpointInclusive(original, startIndex, endIndex, replacement) ==
  IF original > endIndex
    THEN original + (Len(replacement) - (endIndex - startIndex))
    ELSE IF original >= startIndex THEN startIndex + Len(replacement) ELSE original
AdjustEndpoint(original, startIndex, endIndex, replacement) ==
  IF original > endIndex
    THEN original + (Len(replacement) - (endIndex - startIndex))
    ELSE IF original > startIndex THEN startIndex + Len(replacement) ELSE original

\* element.textContent: the text nodes joined
RECURSIVE textContent(_)
textContent(nodes) ==
  IF Len(nodes) = 0 THEN "" ELSE Head(nodes) \o textContent(Tail(nodes))

NoPosition == [node |-> 0, offset |-> 0]

\* getLastTextNode, with the offset resolveTextPosition gives it
LastTextPosition(nodes) ==
  IF Len(nodes) = 0 THEN NoPosition
  ELSE [node |-> Len(nodes), offset |-> Len(nodes[Len(nodes)])]

\* the walk of resolveTextPosition from text node k with `remaining` left
RECURSIVE WalkTextNodes(_, _, _)
WalkTextNodes(nodes, k, remaining) ==
  IF k > Len(nodes) THEN LastTextPosition(nodes)
  ELSE IF remaining <= Len(nodes[k]) THEN [node |-> k, offset |-> remaining]
  ELSE WalkTextNodes(nodes, k + 1, remaining - Len(nodes[k]))

resolveTextPosition(nodes, index) == WalkTextNodes(nodes, 1, index)

\* createRangeForOffsets: the boundary points, or no range
NoRange == [ok |-> FALSE, start |-> NoPosition, end |-> NoPosition]
createRangeForOffsets(nodes, startIndex, endIndex) ==
  LET start == resolveTextPosition(nodes, startIndex)
      end == resolveTextPosition(nodes, endIndex)
  IN IF start = NoPosition \/ end = NoPosition THEN NoRange
     ELSE [ok |-> TRUE, start |-> start, end |-> end]

\* where a boundary point lies in the element's text
BoundaryOffset(nodes, position) ==
  Len(textContent(SubSeq(nodes, 1, position.node - 1))) + position.offset

\* replaceTextWithUndo(element, startIndex, endIndex, replacement)
replaceTextWithUndo(element, startIndex, endIndex, replacement) ==
  IF element.kind = "textarea" THEN
    [text |-> setRangeText(element.value, replacement, startIndex, endIndex),
     selectionStart |->
       AdjustEndpoint(element.selectionStart, startIndex, endIndex, replacement),
     selectionEnd |->
       AdjustEndpoint(element.selectionEnd, startIndex, endIndex, replacement),
     inputEvents |-> 1, result |-> TRUE, native |-> TRUE]
  ELSE IF element.kind = "contenteditable" THEN
    LET range == createRangeForOffsets(element.nodes, startIndex, endIndex)
        text == textContent(element.nodes)
    IN IF range.ok THEN
         \* deleteContents, insertNode, collapse after the new node, normalize
         LET from == BoundaryOffset(element.nodes, range.start)
             to == BoundaryOffset(element.nodes, range.end)
         IN [text |-> Substring(text, 0, from) \o replacement
                        \o Substring(text, to, Len(text)),
             selectionStart |-> from + Len(replacement),
             selectionEnd |-> from + Len(replacement),
             inputEvents |-> 1, result |-> TRUE, native |-> TRUE]
       ELSE
         [text |-> Substring(text, 0, startIndex) \o replacement
                     \o Substring(text, endIndex, Len(text)),
          selectionStart |-> element.selectionStart,
          selectionEnd |-> element.selectionEnd,
          inputEvents |-> 1, result |-> FALSE, native |-> FALSE]
  ELSE
    [text |-> element.value,
     selectionStart |-> element.selectionStart, selectionEnd |-> element.selectionEnd,
     inputEvents |-> 0, result |-> FALSE, native |-> FALSE]

ReplaceTextWithUndo ==
  /\ UNCHANGED rRest
  /\ rPhase = "input"
  /\ rOut' = replaceTextWithUndo(rElement, rStart, rEnd, rReplacement)
  /\ rPhase' = "done"
  /\ UNCHANGED <<rElement, rStart, rEnd, rReplacement>>

NextReplace == ReplaceTextWithUndo

SpecReplace == InitAnyEdit /\ [][NextReplace]_vars

\* ------------------------------------------------------------------ replaceTextWithUndo: claims
\* C13: on a textarea or input with value T and 0 <= start < end <= len(T), the
\* call leaves the value T[0:start] + replacement + T[end:], so the replacement
\* occupies [start, start + len(replacement)) of it, dispatches one input event
\* and returns true.
C13_TextareaReplacesRange ==
  (/\ rPhase = "done"
   /\ rElement.kind = "textarea"
   /\ 0 <= rStart /\ rStart < rEnd /\ rEnd <= Len(rElement.value))
  => /\ Len(rOut.text) = Len(rElement.value) - (rEnd - rStart) + Len(rReplacement)
     /\ SubSeq(rOut.text, 1, rStart) = SubSeq(rElement.value, 1, rStart)
     /\ SubSeq(rOut.text, rStart + 1, rStart + Len(rReplacement)) = rReplacement
     /\ SubSeq(rOut.text, rStart + Len(rReplacement) + 1, Len(rOut.text))
          = SubSeq(rElement.value, rEnd + 1, Len(rElement.value))
     /\ rOut.inputEvents = 1
     /\ rOut.result = TRUE

\* "abc" with [1, 2) replaced by "XY" reads "aXYc"
C13_Witness ==
  /\ rPhase = "done"
  /\ rElement.kind = "textarea"
  /\ rElement.value = "abc" /\ rStart = 1 /\ rEnd = 2 /\ rReplacement = "XY"
  /\ rOut.text = "aXYc"
  /\ rOut.result = TRUE

\* C14: an endpoint p of the selection the textarea had before the call ends up
\* at p + len(replacement) - (end - start) if p > end, at start + len(replacement)
\* if start < p <= end, and at p if p <= start; the new selectionStart is not
\* greater than the new selectionEnd and both lie within the new text.
C14_SelectionMapped ==
  (rPhase = "done" /\ rElement.kind = "textarea")
  => LET Mapped(p, q) ==
           /\ p > rEnd => q = p + Len(rReplacement) - (rEnd - rStart)
           /\ (p > rStart /\ p <= rEnd) => q = rStart + Len(rReplacement)
           /\ p <= rStart => q = p
     IN /\ Mapped(rElement.selectionStart, rOut.selectionStart)
        /\ Mapped(rElement.selectionEnd, rOut.selectionEnd)
        /\ 0 <= rOut.selectionStart
        /\ rOut.selectionStart <= rOut.selectionEnd
        /\ rOut.selectionEnd <= Len(rOut.text)

\* selection [1, 3) of "abc", [1, 2) replaced by "XY": the start stays at 1, the
\* end moves to 4
C14_Witness ==
  /\ rPhase = "done"
  /\ rElement.kind = "textarea"
  /\ rElement.selectionStart = 1 /\ rElement.selectionEnd = 3
  /\ rStart = 1 /\ rEnd = 2 /\ rReplacement = "XY"
  /\ rOut.selectionStart = 1 /\ rOut.selectionEnd = 4

\* C15: on a contenteditable element whose text nodes are exhausted before
\* startIndex or endIndex is reached (the index lies past the end of the text),
\* the call rebuilds the text as text[0:start] + replacement + text[end:],
\* dispatches the input event and returns false, without a native range
\* replacement.
C15_ExhaustedFallsBack ==
  (/\ rPhase = "done"
   /\ rElement.kind = "contenteditable"
   /\ rEnd > Len(textContent(rElement.nodes)))
  => /\ rOut.result = FALSE
     /\ ~rOut.native
     /\ rOut.inputEvents = 1
     /\ rOut.text = Substring(textContent(rElement.nodes), 0, rStart) \o rReplacement

\* ------------------------------------------------------------------ applying a correction
\* the test of updateCorrectionsAfterApply: c lies after the applied correction
ShiftsAfterApplyInclusive(c, appliedCorrection) == c.startIndex >= appliedCorrection.startIndex
ShiftsAfterApply(c, appliedCorrection) == c.startIndex > appliedCorrection.startIndex

\* updateCorrectionsAfterApply(element, appliedCorrection): the other objects of
\* the list, those after the applied one moved by lengthDiff
updateCorrectionsAfterApply(corrections, appliedCorrection) ==
  LET lengthDiff == Len(appliedCorrection.correction)
                      - (appliedCorrection.endIndex - appliedCorrection.startIndex)
      others == SelectSeq(corrections, LAMBDA c : c.id # appliedCorrection.id)
  IN [k \in 1..Len(others) |->
        IF ShiftsAfterApply(others[k], appliedCorrection)
          THEN [others[k] EXCEPT !.startIndex = @ + lengthDiff, !.endIndex = @ + lengthDiff]
          ELSE others[k]]

\* applyCorrectionToElement(element, correction) with the k-th correction shown
\* for the element; execCommand, its fallback and setElementText leave the same text
ApplyCorrectionToElement(k) ==
  /\ UNCHANGED aRest
  /\ k \in 1..Len(aCorrections)
  /\ aLast.seq < MaxListed
  /\ LET correction == aCorrections[k] IN
     IF aText = "" THEN
       /\ aLast' = [kind |-> "skipped", seq |-> aLast.seq + 1]
       /\ UNCHANGED <<aText, aCorrections, aPreviousText, aProofreads>>
     ELSE
       LET newText == Substring(aText, 0, correction.startIndex) \o correction.correction
                        \o Substring(aText, correction.endIndex, Len(aText))
       IN /\ aText' = newText
          /\ aPreviousText' = newText
          \* an empty list: clearElementHighlights deletes the entry
          /\ aCorrections' = updateCorrectionsAfterApply(aCorrections, correction)
          /\ aProofreads' = aProofreads + 1
          /\ aLast' = [kind |-> "applied", seq |-> aLast.seq + 1,
                       applied |-> correction, before |-> aCorrections,
                       text |-> aText]

NextApply == \E k \in 1..MaxListed : ApplyCorrectionToElement(k)

SpecApply == InitAnyProposal /\ [][NextApply]_vars

\* ------------------------------------------------------------------ applying a correction: claims
\* C12: after a correction A was applied, A is no longer in the element's list,
\* every other correction of the list is still there, in order; those whose
\* startIndex was greater than A.startIndex have startIndex and endIndex moved by
\* len(A.correction) - (A.endIndex - A.startIndex), the others have theirs
\* unchanged.
C12_RemainingRebased ==
  aLast.kind = "applied" =>
    LET A == aLast.applied
        before == aLast.before
        delta == Len(A.correction) - (A.endIndex - A.startIndex)
    IN /\ \A j \in 1..Len(aCorrections) : aCorrections[j].id # A.id
       /\ Len(aCorrections) = Len(before) - 1
       /\ \A j \in 1..Len(before) :
            before[j].id # A.id =>
              \E i \in 1..Len(aCorrections) :
                /\ aCorrections[i].id = before[j].id
                /\ i = Cardinality({m \in 1..j : before[m].id # A.id})
                /\ aCorrections[i].correction = before[j].correction
                /\ IF before[j].startIndex > A.startIndex
                     THEN /\ aCorrections[i].startIndex = before[j].startIndex + delta
                          /\ aCorrections[i].endIndex = before[j].endIndex + delta
                     ELSE /\ aCorrections[i].startIndex = before[j].startIndex
                          /\ aCorrections[i].endIndex = before[j].endIndex

\* {0,1,"XY"} applied to "abcdef": the correction at {3,5} is now at {4,6}, the
\* one sharing no later start stays
C12_Witness ==
  /\ aLast.kind = "applied"
  /\ aLast.applied.startIndex = 0 /\ aLast.applied.correction = "XY"
  /\ Len(aLast.before) = 3
  /\ aText = "XYbcdef"
  /\ \E i \in 1..Len(aCorrections) :
       aCorrections[i].startIndex = 4 /\ aCorrections[i].endIndex = 6
  /\ \E i \in 1..Len(aCorrections) :
       aCorrections[i].startIndex = 0 /\ aCorrections[i].endIndex = 1

\* ------------------------------------------------------------------ ContentProofreadingService
\* what detectLanguage may do: a confident language, no confident language, a throw
Detections == {"fr", "unconfident", "throws"}

Selections == {NoSelection, Sel(1, 3)}

\* response.error of a failure: with and without a message
Failures ==
  {[code |-> "unsupported-language", message |-> ""],
   [code |-> "unsupported-language", message |-> "boom"],
   [code |-> "cancelled", message |-> ""],
   [code |-> "unknown", message |-> "boom"]}

\* what the proofreader may make of the text it is sent
Results(target) ==
  {[correctedInput |-> target, corrections |-> <<>>]}
  \cup (IF Len(target) >= 2
          THEN {[correctedInput |-> "Q" \o Substring(target, 1, Len(target)) \o "!",
                 corrections |-> <<Corr(0, 1, "Q"), Corr(Len(target), Len(target), "!")>>]}
          ELSE {})

\* what chrome.runtime.sendMessage(request) may come back with: a ProofreadResponse,
\* an empty response, a rejection
Responses(target) ==
  {[ok |-> TRUE, code |-> "ok", message |-> "", result |-> r] : r \in Results(target)}
  \cup {[ok |-> FALSE, code |-> f.code, message |-> f.message, result |-> NoResult] :
          f \in Failures}
  \cup {[ok |-> FALSE, code |-> "empty", message |-> "", result |-> NoResult],
        [ok |-> FALSE, code |-> "rejected", message |-> "send failed", result |-> NoResult]}

SentTexts ==
  {SurfaceText(e) : e \in Surfaces}
  \cup {Substring(SurfaceText(e), sel.start, sel.end) : e \in Surfaces, sel \in Selections \ {NoSelection}}

AllResponses == UNION {Responses(t) : t \in SentTexts}

\* Map.prototype.set on the element's messages: a known code keeps its place
MapSetAppend(messages, message) == Append(messages, message)
MapSet(messages, message) ==
  IF \E k \in 1..Len(messages) : messages[k].code = message.code
    THEN [k \in 1..Len(messages) |->
            IF messages[k].code = message.code THEN message ELSE messages[k]]
    ELSE Append(messages, message)

\* onMessage(element, message), as IssueManager.setMessage keeps the messages
setMessage(messages, message) ==
  IF \E k \in 1..Len(messages) :
       /\ messages[k].code = message.code
       /\ messages[k].message = message.message
       /\ messages[k].severity = message.severity
    THEN messages
    ELSE MapSet(messages, message)

\* onClearMessage(element, code), as IssueManager.clearMessage keeps the messages
clearMessage(messages, code) == SelectSeq(messages, LAMBDA m : m.code # code)

buildUnsupportedLanguageError(language, errorMessage) ==
  [code |-> "unsupported-language", severity |-> "error",
   message |-> "rejected " \o language
                 \o (IF errorMessage = "" THEN "" ELSE " Reason: " \o errorMessage)]

buildLanguageDetectionUnconfidentWarning ==
  [code |-> "language-detection-unconfident", severity |-> "warning",
   message |-> "not confident"]

buildLanguageDetectionError ==
  [code |-> "language-detection-error", severity |-> "error", message |-> "detection failed"]

\* the messages after the language detection of runProofread
AfterDetection(messages, detection) ==
  IF detection = "unconfident"
    THEN clearMessage(setMessage(messages, buildLanguageDetectionUnconfidentWarning),
                      "language-detection-error")
  ELSE IF detection = "throws"
    THEN setMessage(clearMessage(messages, "language-detection-unconfident"),
                    buildLanguageDetectionError)
  ELSE clearMessage(clearMessage(messages, "language-detection-unconfident"),
                    "language-detection-error")

fallbackLanguage == "en"

\* detectedLanguage?.trim() || fallbackLanguage
requestedLanguage(detection) ==
  IF detection \in {"unavailable", "unconfident", "throws"} THEN fallbackLanguage ELSE detection

\* reportProofreaderBusy(busy) on [last, log]
reportProofreaderBusyForgetful(state, busy) ==
  IF state.last = busy THEN state ELSE [state EXCEPT !.log = Append(@, busy)]
reportProofreaderBusy(state, busy) ==
  IF state.last = busy THEN state ELSE [last |-> busy, log |-> Append(state.log, busy)]

\* from the detection result on: the messages, then requestProofread up to its await
Dispatch(element, selection, targetText, detection) ==
  LET busy == reportProofreaderBusy([last |-> lastProofreaderBusy, log |-> svcBusyLog], TRUE)
  IN /\ svcRun' = [phase |-> "requesting", element |-> element, selection |-> selection,
                   sent |-> targetText, detection |-> detection,
                   language |-> requestedLanguage(detection)]
     /\ svcMessages' = [svcMessages EXCEPT ![element] = AfterDetection(@, detection)]
     /\ lastProofreaderBusy' = busy.last
     /\ svcBusyLog' = busy.log
     /\ svcInFlight' = [svcInFlight EXCEPT ![element] = @ + 1]

\* the operation runProofread enqueues, from its start to its first await
BeginOperation(req) ==
  LET text == SurfaceText(req.element)
      targetText == IF req.selection.has
                      THEN Substring(text, req.selection.start, req.selection.end)
                      ELSE text
  IN IF svcDetector
       THEN /\ svcRun' = [phase |-> "detecting", element |-> req.element,
                          selection |-> req.selection, sent |-> targetText,
                          detection |-> "none", language |-> ""]
            /\ UNCHANGED <<svcMessages, lastProofreaderBusy, svcBusyLog, svcInFlight>>
       ELSE Dispatch(req.element, req.selection, targetText, "unavailable")

\* nothing but microtasks runs while a microtask or a continuation is due
Quiescent == svcMicrotasks = <<>> /\ ~(svcRun.phase = "idle" /\ svcQueue # <<>>)

\* initialize(): the detector is created, or is not available
InitializeLanguageDetection(available) ==
  /\ UNCHANGED sRest
  /\ Quiescent
  /\ ~svcInitialized
  /\ svcInitialized' = TRUE
  /\ svcDetector' = available
  /\ UNCHANGED <<svcQueue, svcRun, svcMessages, lastProofreaderBusy, svcBusyLog, svcInFlight,
                 svcMicrotasks, svcScheduled, svcCalls, svcLast>>

\* runProofread(element, text, context): proofreadQueue.enqueue(operation);
\* processQueue() invokes the operation at once unless a loop is active
RunProofread(element, selection) ==
  /\ UNCHANGED sRest
  /\ Quiescent
  /\ svcCalls < MaxRuns
  /\ svcCalls' = svcCalls + 1
  /\ IF ~ProcessQueueSkips(svcRun.phase # "idle",
                            Append(svcQueue, [element |-> element, selection |-> selection]))
       THEN /\ BeginOperation([element |-> element, selection |-> selection])
            /\ UNCHANGED svcQueue
       ELSE /\ svcQueue' = Append(svcQueue, [element |-> element, selection |-> selection])
            /\ UNCHANGED <<svcRun, svcMessages, lastProofreaderBusy, svcBusyLog,
                           svcInFlight>>
  /\ UNCHANGED <<svcDetector, svcInitialized, svcMicrotasks, svcScheduled, svcLast>>

\* processQueue() goes on to the next waiting operation
StartNext ==
  /\ UNCHANGED sRest
  /\ svcRun.phase = "idle"
  /\ svcQueue # <<>>
  /\ BeginOperation(Head(svcQueue))
  /\ svcQueue' = Tail(svcQueue)
  /\ UNCHANGED <<svcDetector, svcInitialized, svcMicrotasks, svcScheduled, svcCalls, svcLast>>

\* detectLanguage(targetText) settles
DetectionSettles(detection) ==
  /\ UNCHANGED sRest
  /\ Quiescent
  /\ svcRun.phase = "detecting"
  /\ Dispatch(svcRun.element, svcRun.selection, svcRun.sent, detection)
  /\ UNCHANGED <<svcDetector, svcInitialized, svcQueue, svcMicrotasks, svcScheduled,
                 svcCalls, svcLast>>

\* the prefix and suffix of a selection-scoped run put back, the offsets moved
RebaseResultUnshifted(text, selection, result) ==
  [correctedInput |-> Substring(text, 0, selection.start) \o result.correctedInput
                        \o Substring(text, selection.end, Len(text)),
   corrections |-> result.corrections]
RebaseResult(text, selection, result) ==
  [correctedInput |-> Substring(text, 0, selection.start) \o result.correctedInput
                        \o Substring(text, selection.end, Len(text)),
   corrections |->
     [k \in 1..Len(result.corrections) |->
        [result.corrections[k] EXCEPT !.startIndex = @ + selection.start,
                                      !.endIndex = @ + selection.start]]]

\* response.error.code === 'cancelled'
IsCancelledOrUnknown(response) == response.code \in {"cancelled", "unknown"}
IsCancelled(response) == response.code = "cancelled"

\* if (!selection) queueMicrotask(...)
RetryAfterCancelAlways(selection) == TRUE
RetryAfterCancel(selection) == ~selection.has

\* message || fallback
OrDefault(message, default) == IF message = "" THEN default ELSE message

\* runProofread from the settled sendMessage on: how the run's promise settles,
\* the element's messages and whether a retry microtask is queued
AfterResponse(text, selection, language, response, messages) ==
  LET base == [outcome |-> "Error", value |-> NoResult, error |-> "",
               messages |-> messages, retry |-> FALSE]
  IN IF response.code = "empty"
       THEN [base EXCEPT !.error = "Proofreader service returned empty response"]
     ELSE IF response.code = "rejected"
       THEN [base EXCEPT !.error = response.message]
     ELSE IF ~response.ok THEN
       IF response.code = "unsupported-language"
         THEN [base EXCEPT !.outcome = "null",
                           !.messages = setMessage(messages,
                              buildUnsupportedLanguageError(language, response.message))]
       ELSE IF IsCancelled(response)
         THEN [base EXCEPT !.outcome = "AbortError",
                           !.error = OrDefault(response.message, "Proofreader request cancelled"),
                           !.retry = RetryAfterCancel(selection)]
       ELSE [base EXCEPT !.error = OrDefault(response.message, "Proofreader request failed")]
     ELSE [base EXCEPT !.outcome = "resolved",
                       !.messages = clearMessage(messages, "unsupported-language"),
                       !.value = IF selection.has
                                   THEN RebaseResult(text, selection, response.result)
                                   ELSE response.result]

\* the controller's handling of a run that rejected: a failure that is not a
\* cancellation is shown as the surface's error message, and nothing is retried
ControllerSurfaces(settled, error) == IF settled = "Error" THEN error ELSE ""

\* a requestProofread that reports only after a response came back
BusyAfterResponseOnly(state, response) ==
  IF response.code \in {"empty", "rejected"} THEN state
  ELSE reportProofreaderBusy(state, FALSE)

\* the finally block of requestProofread, whatever sendMessage came back with
BusyAfterRequest(state, response) == reportProofreaderBusy(state, FALSE)

\* chrome.runtime.sendMessage(request) settles: the finally of requestProofread,
\* then the rest of the operation
ResponseArrives(response) ==
  /\ UNCHANGED sRest
  /\ Quiescent
  /\ svcRun.phase = "requesting"
  /\ response \in Responses(svcRun.sent)
  /\ LET busy == BusyAfterRequest([last |-> lastProofreaderBusy, log |-> svcBusyLog], response)
         after == AfterResponse(SurfaceText(svcRun.element), svcRun.selection,
                                svcRun.language, response, svcMessages[svcRun.element])
     IN /\ lastProofreaderBusy' = busy.last
        /\ svcBusyLog' = busy.log
        /\ svcInFlight' = [svcInFlight EXCEPT ![svcRun.element] = @ - 1]
        /\ svcMessages' = [svcMessages EXCEPT ![svcRun.element] = after.messages]
        /\ svcMicrotasks' = IF after.retry THEN Append(svcMicrotasks, svcRun.element)
                            ELSE svcMicrotasks
        /\ svcLast' = [seq |-> svcLast.seq + 1, element |-> svcRun.element,
                       selection |-> svcRun.selection, sent |-> svcRun.sent,
                       detection |-> svcRun.detection, language |-> svcRun.language,
                       response |-> response, outcome |-> after.outcome,
                       value |-> after.value, error |-> after.error,
                       surfaced |-> ControllerSurfaces(after.outcome, after.error),
                       retries |-> IF after.retry THEN 1 ELSE 0]
  /\ svcRun' = IdleRun
  /\ UNCHANGED <<svcDetector, svcInitialized, svcQueue, svcScheduled, svcCalls>>

\* the retry microtask: this.controller.scheduleProofread(element)
RetryMicrotask ==
  /\ UNCHANGED sRest
  /\ svcMicrotasks # <<>>
  /\ svcScheduled' = Append(svcScheduled, Head(svcMicrotasks))
  /\ svcMicrotasks' = Tail(svcMicrotasks)
  /\ UNCHANGED <<svcDetector, svcInitialized, svcQueue, svcRun, svcMessages,
                 lastProofreaderBusy, svcBusyLog, svcInFlight, svcCalls, svcLast>>

NextService ==
  \/ \E available \in BOOLEAN : InitializeLanguageDetection(available)
  \/ \E element \in Surfaces, selection \in Selections : RunProofread(element, selection)
  \/ StartNext
  \/ \E detection \in Detections : DetectionSettles(detection)
  \/ \E response \in AllResponses : ResponseArrives(response)
  \/ RetryMicrotask

SpecService == Init /\ [][NextService]_vars

\* detections and requests settle, microtasks run and the queue goes on
ServiceProgress ==
  \/ StartNext
  \/ \E detection \in Detections : DetectionSettles(detection)
  \/ \E response \in AllResponses : ResponseArrives(response)
  \/ RetryMicrotask

SpecServiceFair == Init /\ [][NextService]_vars /\ WF_vars(ServiceProgress)

\* ------------------------------------------------------------------ ContentProofreadingService: claims
\* C11: a run sends the proofreader T[s:e] if it has the selection [s, e) and T
\* otherwise; a selection-scoped run that succeeds returns correctedInput
\* T[0:s] + (the result's correctedInput) + T[e:] and the result's corrections
\* with startIndex and endIndex raised by s; a run without a selection returns
\* the proofreader's result as it is.
C11_SelectionRebased ==
  svcLast.seq > 0 =>
    LET T == SurfaceText(svcLast.element)
        s == svcLast.selection.start
        e == svcLast.selection.end
        result == svcLast.response.result
        returned == svcLast.value
    IN /\ svcLast.sent = IF svcLast.selection.has THEN SubSeq(T, s + 1, e) ELSE T
       /\ svcLast.response.ok =>
            /\ svcLast.outcome = "resolved"
            /\ IF svcLast.selection.has
                 THEN /\ returned.correctedInput
                           = SubSeq(T, 1, s) \o result.correctedInput \o SubSeq(T, e + 1, Len(T))
                      /\ Len(returned.corrections) = Len(result.corrections)
                      /\ \A k \in 1..Len(result.corrections) :
                           /\ returned.corrections[k].startIndex
                                = result.corrections[k].startIndex + s
                           /\ returned.corrections[k].endIndex
                                = result.corrections[k].endIndex + s
                           /\ returned.corrections[k].correction
                                = result.corrections[k].correction
                 ELSE returned = result

\* [1, 3) of "abcd": "bc" was sent, "Qc!" came back, the run returned "aQc!d"
\* with the corrections at {1, 2} and {3, 3}
C11_Witness ==
  /\ svcLast.seq > 0
  /\ svcLast.selection = Sel(1, 3)
  /\ svcLast.sent = "bc"
  /\ svcLast.response.ok
  /\ svcLast.value.correctedInput = "aQc!d"
  /\ Len(svcLast.value.corrections) = 2
  /\ svcLast.value.corrections[1].startIndex = 1
  /\ svcLast.value.corrections[2].endIndex = 3

UnsupportedOn(element) ==
  {k \in 1..Len(svcMessages[element]) : svcMessages[element][k].code = "unsupported-language"}

\* C16: a run whose response is the failure unsupported-language resolves with
\* null, queues no retry, and leaves the element with exactly one message of the
\* code unsupported-language, however many such responses came before.
C16_UnsupportedLanguageOnce ==
  (svcLast.seq > 0 /\ svcLast.response.code = "unsupported-language")
  => /\ svcLast.outcome = "null"
     /\ svcLast.retries = 0
     /\ Cardinality(UnsupportedOn(svcLast.element)) = 1
     /\ \A k \in UnsupportedOn(svcLast.element) :
          svcMessages[svcLast.element][k].severity = "error"

\* the second unsupported-language response for the element, with another reason:
\* the message kept its place in front of the advisory of the second run
C16_Witness ==
  /\ svcLast.seq = 2
  /\ svcLast.response.code = "unsupported-language"
  /\ svcLast.response.message = "boom"
  /\ svcLast.detection = "unconfident"
  /\ Len(svcMessages[svcLast.element]) = 2
  /\ svcMessages[svcLast.element][1].code = "unsupported-language"
  /\ svcScheduled = <<>> /\ svcMicrotasks = <<>>

\* C17: the step that ends a run on the failure cancelled rejects the run with an
\* AbortError and queues one retry for the run's element if the run has no
\* selection, none if it has one; scheduleProofread is called by a retry only,
\* once, with the element the retry was queued for.
C17_CancelledRetriesUnlessSelection ==
  [][/\ (svcLast'.seq = svcLast.seq + 1 /\ svcLast'.response.code = "cancelled")
        => /\ svcLast'.outcome = "AbortError"
           /\ svcScheduled' = svcScheduled
           /\ svcMicrotasks' = IF svcLast'.selection.has THEN svcMicrotasks
                               ELSE Append(svcMicrotasks, svcLast'.element)
     /\ svcScheduled' # svcScheduled
        => /\ svcMicrotasks # <<>>
           /\ svcScheduled' = Append(svcScheduled, Head(svcMicrotasks))
           /\ svcMicrotasks' = Tail(svcMicrotasks)
           /\ svcLast' = svcLast]_vars

\* a cancelled run on element 2 without a selection: its one retry has run
C17_Witness ==
  /\ svcLast.seq = 1
  /\ svcLast.response.code = "cancelled"
  /\ ~svcLast.selection.has
  /\ svcLast.element = 2
  /\ svcLast.outcome = "AbortError"
  /\ svcScheduled = <<2>>
  /\ svcMicrotasks = <<>>

Advisories(element) ==
  {svcMessages[element][k].code : k \in 1..Len(svcMessages[element])}
    \ {"unsupported-language"}

\* C19: a run dispatched after detection was unavailable, not confident or threw
\* requests the fallback language with one advisory on the element, a different
\* one in each of the three cases; a run dispatched after a confident detection
\* has no advisory on the element.
C19_AdvisoryInEachCase ==
  svcRun.phase = "requesting" =>
    LET advisories == Advisories(svcRun.element) IN
    /\ svcRun.detection \in {"unavailable", "unconfident", "throws"}
         => /\ svcRun.language = "en"
            /\ Cardinality(advisories) = 1
    /\ svcRun.detection = "unconfident" => advisories = {"language-detection-unconfident"}
    /\ svcRun.detection = "throws" => advisories = {"language-detection-error"}
    /\ svcRun.detection = "unavailable"
         => advisories \cap {"language-detection-unconfident", "language-detection-error"} = {}
    /\ svcRun.detection \notin {"unavailable", "unconfident", "throws"} => advisories = {}

\* C20: the values passed to onBusyChange are true, false, true, ... in turn,
\* the first one true.
C20_BusyAlternates ==
  \A k \in 1..Len(svcBusyLog) : svcBusyLog[k] = (k % 2 = 1)

\* two requests, the second one failing: true, false, true, false
C20_Witness ==
  /\ svcBusyLog = <<TRUE, FALSE, TRUE, FALSE>>
  /\ svcLast.seq = 2
  /\ svcLast.outcome = "Error"
  /\ lastProofreaderBusy = FALSE

\* ------------------------------------------------------------------ proofreader proxy

DEFAULT_FALLBACK_LANGUAGE == "en"

\* the language and the fallback language a request carries
Languages == {"fr", " FR ", ""}
FallbackLanguages == {"en", ""}

\* String.prototype.trim and toLowerCase, on the strings that occur
trim(s) == IF s = " FR " THEN "FR" ELSE s

toLowerCase(s) ==
  CASE s = "FR" -> "fr"
    [] s = "Proofreading Cancelled" -> "proofreading cancelled"
    [] s = "Language not available" -> "language not available"
    [] s = "Unsupported language options" -> "unsupported language options"
    [] OTHER -> s

\* String.prototype.includes
includes(s, sub) ==
  \E i \in 1..(Len(s) - Len(sub) + 1) : SubSeq(s, i, i + Len(sub) - 1) = sub

getLanguageCacheKey(language) ==
  IF toLowerCase(trim(language)) # "" THEN toLowerCase(trim(language))
  ELSE DEFAULT_FALLBACK_LANGUAGE

normalizeLanguage(language, fallback) ==
  IF Len(trim(language)) > 0 THEN trim(language) ELSE fallback

\* what createProofreader and service.proofread may throw: DOMExceptions, Errors,
\* strings and other values
NoError == [class |-> "none", name |-> "", message |-> ""]

Throwables ==
  { [class |-> "DOMException", name |-> "AbortError", message |-> "the operation was aborted"],
    [class |-> "Error", name |-> "Error", message |-> "Proofreading Cancelled"],
    [class |-> "DOMException", name |-> "NotAllowedError", message |-> "Language not available"],
    [class |-> "Error", name |-> "Error", message |-> "Unsupported language options"],
    [class |-> "string", name |-> "", message |-> "boom"],
    [class |-> "object", name |-> "", message |-> ""] }

Settlements == Throwables \cup {NoError}

\* error instanceof Error (a DOMException is one)
instanceofError(error) == error.class \in {"Error", "DOMException"}

isUnsupportedLanguageError(error) ==
  LET message == IF instanceofError(error) \/ error.class = "string"
                 THEN toLowerCase(error.message) ELSE ""
  IN  IF error.class = "string" /\ error.message = "" THEN FALSE
      ELSE IF error.class = "DOMException" /\ error.name = "NotAllowedError"
           THEN includes(message, "language")
           ELSE includes(message, "language options")
                  \/ includes(message, "unsupported language")

messageText(error) ==
  IF instanceofError(error) \/ error.class = "string" THEN error.message
  ELSE "Proofreader request failed"

errorCode(error) ==
  LET isCancelled == (error.class = "DOMException" /\ error.name = "AbortError")
                       \/ includes(toLowerCase(messageText(error)), "cancelled")
  IN  IF isCancelled THEN "cancelled"
      ELSE IF isUnsupportedLanguageError(error) THEN "unsupported-language"
      ELSE "unknown"

\* return { requestId, ok: true, result }: the result names the service that gave it
Succeeded(requestId, service) ==
  [request |-> requestId, settled |-> "resolved",
   response |-> [requestId |-> requestId, ok |-> TRUE, result |-> service, code |-> "",
                 message |-> "", name |-> ""]]

Rethrown(requestId, error) ==
  [request |-> requestId, settled |-> "rejected", response |-> error]

\* the catch block: return { requestId, ok: false, error: { code, message, name } }
Caught(requestId, error) ==
  [request |-> requestId, settled |-> "resolved",
   response |-> [requestId |-> requestId, ok |-> FALSE, result |-> 0,
                 code |-> errorCode(error), message |-> messageText(error),
                 name |-> IF instanceofError(error) THEN error.name ELSE ""]]

NeverBusy == FALSE

isProofreaderProxyBusy == activeOperations > 0

FinallyMissing == UNCHANGED activeOperations

\* the finally block
Finally == activeOperations' = Max({0, activeOperations - 1})

\* handleProofreadRequest up to its first suspension: the cached service is
\* looked up in the same job, createProofreader is awaited on a miss
HandleProofreadRequest(r, language, fallback) ==
  LET normalizedFallback == IF fallback # "" THEN fallback
                            ELSE DEFAULT_FALLBACK_LANGUAGE
      requested == normalizeLanguage(language, normalizedFallback)
      cacheKey == getLanguageCacheKey(requested)
      cached == proofreaderServices[cacheKey]
  IN  /\ pRequests[r].phase = "new"
      /\ \A q \in Requests : q < r => pRequests[q].phase # "new"
      /\ activeOperations' = activeOperations + 1
      /\ pRequests' = [pRequests EXCEPT ![r] =
           [@ EXCEPT !.phase = IF cached # 0 THEN "proofreading" ELSE "creating",
                     !.key = cacheKey,
                     !.service = cached]]
      /\ UNCHANGED <<proofreaderServices, pReturned, pInstances, pResets, pSuspends,
                     pDeferred, pLast>>
      /\ UNCHANGED pRest

\* createProofreader settles: the new service is put in the cache under the key
\* and proofread(text) is called on it, or the rejection reaches the catch block
CreateProofreaderSettles(r, error) ==
  /\ pRequests[r].phase = "creating"
  /\ IF error = NoError
     THEN LET service == Len(pInstances) + 1
          IN  /\ pInstances' = Append(pInstances,
                     [key |-> pRequests[r].key, destroyed |-> FALSE, resets |-> pResets])
              /\ proofreaderServices' =
                     [proofreaderServices EXCEPT ![pRequests[r].key] = service]
              /\ pRequests' = [pRequests EXCEPT ![r] =
                     [@ EXCEPT !.phase = "proofreading", !.service = service]]
              /\ UNCHANGED <<activeOperations, pReturned>>
     ELSE /\ pRequests' = [pRequests EXCEPT ![r] = [@ EXCEPT !.phase = "done"]]
          /\ pReturned' = Caught(r, error)
          /\ Finally
          /\ UNCHANGED <<proofreaderServices, pInstances>>
  /\ UNCHANGED <<pResets, pSuspends, pDeferred, pLast>>
  /\ UNCHANGED pRest

\* service.proofread(text) settles
ProofreadSettles(r, error) ==
  LET returned == IF error = NoError THEN Succeeded(r, pRequests[r].service)
                  ELSE Caught(r, error)
  IN  /\ pRequests[r].phase = "proofreading"
      /\ pRequests' = [pRequests EXCEPT ![r] = [@ EXCEPT !.phase = "done"]]
      /\ pReturned' = returned
      /\ Finally
      /\ UNCHANGED <<proofreaderServices, pInstances, pResets, pSuspends, pDeferred, pLast>>
      /\ UNCHANGED pRest

Cached == {proofreaderServices[k] : k \in CacheKeys} \ {0}

\* the onSuspend listener: one call of resetProofreaderServices
OnSuspend ==
  /\ pSuspends < MaxSuspends
  /\ pSuspends' = pSuspends + 1
  /\ IF isProofreaderProxyBusy
     THEN /\ pDeferred' = TRUE
          /\ pLast' = [seq |-> pSuspends + 1, active |-> activeOperations,
                       before |-> proofreaderServices, after |-> proofreaderServices,
                       destroyed |-> {}]
          /\ UNCHANGED <<proofreaderServices, pInstances, pResets>>
     ELSE /\ pInstances' = [i \in DOMAIN pInstances |->
                 IF i \in Cached THEN [pInstances[i] EXCEPT !.destroyed = TRUE]
                 ELSE pInstances[i]]
          /\ proofreaderServices' = [k \in CacheKeys |-> 0]
          /\ pResets' = pResets + 1
          /\ pDeferred' = FALSE
          /\ pLast' = [seq |-> pSuspends + 1, active |-> activeOperations,
                       before |-> proofreaderServices, after |-> [k \in CacheKeys |-> 0],
                       destroyed |-> Cached]
  /\ UNCHANGED <<activeOperations, pRequests, pReturned>>
  /\ UNCHANGED pRest

\* the awaited calls settle
ProxyProgress ==
  \E r \in Requests, error \in Settlements :
    CreateProofreaderSettles(r, error) \/ ProofreadSettles(r, error)

NextProxy ==
  \/ \E r \in Requests, language \in Languages, fallback \in FallbackLanguages :
       HandleProofreadRequest(r, language, fallback)
  \/ \E r \in Requests, error \in Settlements : CreateProofreaderSettles(r, error)
  \/ \E r \in Requests, error \in Settlements : ProofreadSettles(r, error)
  \/ OnSuspend

\* createProofreader and proofread settle; requests and suspensions come as
\* the browser sends them
SpecProxy == Init /\ [][NextProxy]_vars /\ WF_vars(ProxyProgress)

InFlight == {r \in Requests : pRequests[r].phase \in {"creating", "proofreading"}}

CacheEmpty == \A k \in CacheKeys : proofreaderServices[k] = 0

\* C21: resetProofreaderServices destroys the cached services and clears the
\* cache only when no handleProofreadRequest is in flight; called while one is
\* in flight it leaves the cache as it was, so the service of a request that
\* is still running has not been destroyed.
C21_ResetOnlyWhenIdle ==
  /\ pLast.seq > 0 =>
       IF pLast.active > 0
       THEN pLast.after = pLast.before /\ pLast.destroyed = {}
       ELSE /\ \A k \in CacheKeys : pLast.after[k] = 0
            /\ pLast.destroyed = {pLast.before[k] : k \in CacheKeys} \ {0}
  /\ activeOperations = Cardinality(InFlight)
  /\ \A r \in InFlight :
       pRequests[r].service # 0 => ~pInstances[pRequests[r].service].destroyed

\* a reset was deferred while a request was using the cached service
C21_Witness ==
  /\ pLast.seq > 0
  /\ pLast.active > 0
  /\ \E r \in InFlight :
       /\ pRequests[r].service # 0
       /\ pLast.before[pRequests[r].key] = pRequests[r].service

\* C22: a teardown of the cache that was deferred because requests were in
\* flight is retried: once they complete, the cached services are eventually
\* destroyed and the cache is emptied.
C22_DeferredTeardownRetried == pDeferred ~> CacheEmpty

\* C23: between resets of the cache at most one service is created per cache
\* key and every request for the key uses that service, also when a second
\* request arrives while the first still awaits the creation.
C23_OneInstancePerKey ==
  /\ \A i, j \in DOMAIN pInstances :
       (pInstances[i].key = pInstances[j].key /\ pInstances[i].resets = pInstances[j].resets)
         => i = j
  /\ \A r, q \in Requests :
       (/\ pRequests[r].service # 0
        /\ pRequests[q].service # 0
        /\ pRequests[r].key = pRequests[q].key
        /\ pInstances[pRequests[r].service].resets = pInstances[pRequests[q].service].resets)
         => pRequests[r].service = pRequests[q].service

C24_OneRunInFlight ==
  /\ \A e \in Surfaces : svcInFlight[e] \in {0, 1}
  /\ \A e, f \in Surfaces : (svcInFlight[e] > 0 /\ svcInFlight[f] > 0) => e = f
  /\ \A e \in Surfaces :
       svcInFlight[e] = IF svcRun.phase = "requesting" /\ svcRun.element = e THEN 1 ELSE 0

\* a run of one surface awaits its response while a run of the other surface
\* waits in the queue
C24_Witness ==
  /\ svcRun.phase = "requesting"
  /\ svcInFlight[svcRun.element] = 1
  /\ \E k \in 1..Len(svcQueue) : svcQueue[k].element # svcRun.element

\* ------------------------------------------------------------------ proofreadElement

\* the texts the element may hold
Texts == {"", "ab", "ab ", "abc"}

\* String.prototype.trimEnd
trimEnd(text) == IF text = "ab " THEN "ab" ELSE text

TypedCorr(s, e, r, type) == [startIndex |-> s, endIndex |-> e, correction |-> r, type |-> type]

CorrectionTypeSets == {{"spelling"}, {"spelling", "grammar"}}

\* what proofread(text) may resolve with, or that it rejects
ProofreadOutcomes ==
  { [ok |-> TRUE, corrections |-> <<>>],
    [ok |-> TRUE, corrections |-> <<TypedCorr(0, 1, "X", "spelling")>>],
    [ok |-> TRUE, corrections |-> <<TypedCorr(1, 2, "Y", "grammar")>>],
    [ok |-> TRUE, corrections |-> <<TypedCorr(0, 2, "Z", ""), TypedCorr(2, 3, "", "spelling")>>],
    [ok |-> FALSE, corrections |-> <<>>] }

isCorrectionEnabled(correction) ==
  IF Cardinality(enabledCorrectionTypes) = 0 THEN FALSE
  ELSE IF correction.type = "" THEN TRUE
  ELSE correction.type \in enabledCorrectionTypes

\* Array.prototype.filter
RECURSIVE filter(_, _)
filter(list, keep) ==
  IF list = <<>> THEN <<>>
  ELSE IF Head(list) \in keep THEN <<Head(list)>> \o filter(Tail(list), keep)
  ELSE filter(Tail(list), keep)

IsNeverStale(currentText, text) == FALSE

\* currentText !== text
IsStale(currentText, text) == currentText # text

\* the operation after `await proofread(text)`: what it leaves as the element's
\* corrections
AfterProofread(text, currentText, result, stored) ==
  IF ~result.ok THEN [outcome |-> "failed", corrections |-> stored]
  ELSE IF IsStale(currentText, text) THEN [outcome |-> "discarded", corrections |-> stored]
  ELSE IF Len(result.corrections) > 0
       THEN LET trimmedLength == Len(trimEnd(text))
                filteredCorrections ==
                  filter(result.corrections,
                         {c \in {result.corrections[k] : k \in 1..Len(result.corrections)} :
                            c.startIndex < trimmedLength /\ isCorrectionEnabled(c)})
            IN  IF Len(filteredCorrections) = 0
                THEN [outcome |-> "cleared", corrections |-> <<>>]
                ELSE [outcome |-> "committed", corrections |-> filteredCorrections]
       ELSE [outcome |-> "cleared", corrections |-> <<>>]

\* initializeCorrectionPreferences(): the stored preferences are read
InitializeCorrectionPreferences(types) ==
  /\ enabledCorrectionTypes = {}
  /\ enabledCorrectionTypes' = types
  /\ UNCHANGED <<mText, mCorrections, mPreviousText, mQueue, mRun, mCalls, mEdits, mLast>>
  /\ UNCHANGED mRest

\* the user edits the element
EditText(text) ==
  /\ mEdits < MaxEdits
  /\ text # mText
  /\ mText' = text
  /\ mEdits' = mEdits + 1
  /\ UNCHANGED <<mCorrections, mPreviousText, enabledCorrectionTypes, mQueue, mRun, mCalls,
                 mLast>>
  /\ UNCHANGED mRest

\* proofreadElement(element) up to its await: the text is read, and the
\* operation is enqueued with that text; canProofread(text) gives proofreadable
ProofreadElement(proofreadable) ==
  /\ mCalls < MaxProofreads
  /\ mCalls' = mCalls + 1
  /\ IF mText = "" \/ ~proofreadable
     THEN /\ mCorrections' = <<>>
          /\ UNCHANGED <<mPreviousText, mQueue, mRun>>
     ELSE /\ mPreviousText' = mText
          /\ IF ProcessQueueSkips(mRun.active, Append(mQueue, mText))
             THEN mQueue' = Append(mQueue, mText) /\ UNCHANGED mRun
             ELSE mRun' = [active |-> TRUE, text |-> mText] /\ UNCHANGED mQueue
          /\ UNCHANGED mCorrections
  /\ UNCHANGED <<mText, enabledCorrectionTypes, mEdits, mLast>>
  /\ UNCHANGED mRest

\* proofread(text) settles: the operation finishes and processQueue() takes
\* the next one
ProofreadResolves(result) ==
  LET after == AfterProofread(mRun.text, mText, result, mCorrections)
  IN  /\ mRun.active
      /\ \A k \in 1..Len(result.corrections) :
           result.corrections[k].endIndex <= Len(mRun.text)
      /\ mCorrections' = after.corrections
      /\ mLast' = [seq |-> mLast.seq + 1, sent |-> mRun.text, current |-> mText,
                   result |-> result, before |-> mCorrections,
                   after |-> after.corrections, outcome |-> after.outcome]
      /\ IF mQueue # <<>>
         THEN mRun' = [active |-> TRUE, text |-> Head(mQueue)] /\ mQueue' = Tail(mQueue)
         ELSE mRun' = NoOperation /\ UNCHANGED mQueue
      /\ UNCHANGED <<mText, mPreviousText, enabledCorrectionTypes, mCalls, mEdits>>
      /\ UNCHANGED mRest

NextManager ==
  \/ \E types \in CorrectionTypeSets : InitializeCorrectionPreferences(types)
  \/ \E text \in Texts : EditText(text)
  \/ \E proofreadable \in BOOLEAN : ProofreadElement(proofreadable)
  \/ \E result \in ProofreadOutcomes : ProofreadResolves(result)

SpecManager == Init /\ [][NextManager]_vars

\* C25: a proofreading result is stored as the element's corrections only if
\* the element's text, when the result arrives, equals the text that was sent;
\* if the text has changed meanwhile the result is discarded and the stored
\* corrections stay as they were.
C25_StaleResultDiscarded ==
  mLast.seq > 0 =>
    /\ mLast.outcome \in {"committed", "cleared"} => mLast.current = mLast.sent
    /\ mLast.after # mLast.before => mLast.current = mLast.sent
    /\ (mLast.result.ok /\ mLast.current # mLast.sent) =>
         /\ mLast.outcome = "discarded"
         /\ mLast.after = mLast.before

\* corrections were stored, the text was edited while the next request was in
\* flight, and its result, which had corrections, was discarded
C25_Witness ==
  /\ mLast.seq > 0
  /\ mLast.outcome = "discarded"
  /\ mLast.before # <<>>
  /\ mLast.result.corrections # <<>>
  /\ mLast.result.corrections # mLast.before
  /\ mCorrections = mLast.before

\* ------------------------------------------------------------------ ElementTracker

\* element.parentElement (0: none, the element hangs below the body)
parentElement(e) == CASE e = 2 -> 1 [] e = 4 -> 3 [] OTHER -> 0

\* element.isContentEditable: the contenteditable div and what is inside it
isContentEditable(e) == e \in {3, 4}

\* isProofreadTarget(element): textarea, text input, contenteditable
isProofreadTarget(e) == e \in {2, 4} \/ isContentEditable(e)

ProofreadTargets == {e \in DomNodes : isProofreadTarget(e)}

RECURSIVE Ancestors(_)
Ancestors(e) ==
  IF parentElement(e) = 0 THEN {} ELSE {parentElement(e)} \cup Ancestors(parentElement(e))

Descendants(e) == {d \in DomNodes : e \in Ancestors(d)}

\* an identifier no earlier call returned
createUniqueId(created) == created + 1

identifierForgotten(ids, element) == 0

\* this.elementIds.get(element)
identifierOf(ids, element) == ids[element]

\* getElementId(element): the tracker after the call, and the value returned
getElementId(tracker, element) ==
  IF identifierOf(tracker.ids, element) = 0
  THEN LET identifier == createUniqueId(tracker.created)
       IN  [ids |-> [tracker.ids EXCEPT ![element] = identifier],
            lookup |-> [tracker.lookup EXCEPT ![identifier] = element],
            created |-> identifier,
            returned |-> identifier]
  ELSE [ids |-> tracker.ids, lookup |-> tracker.lookup, created |-> tracker.created,
        returned |-> identifierOf(tracker.ids, element)]

getElementById(id) == elementLookup[id]

Tracker == [ids |-> elementIds, lookup |-> elementLookup, created |-> tCreated]

\* getElementId(element), called by the host or by registerElement
CallGetElementId(element) ==
  LET after == getElementId(Tracker, element)
  IN  /\ after.returned \in Identifiers
      /\ elementIds' = after.ids
      /\ elementLookup' = after.lookup
      /\ tCreated' = after.created
      /\ tGiven' = [tGiven EXCEPT ![element] = @ \cup {after.returned}]

GetElementId(element) ==
  /\ isProofreadTarget(element)
  /\ CallGetElementId(element)
  /\ UNCHANGED <<registeredElements, tAttached, tLast>>
  /\ UNCHANGED tRest

RegisterElement(element) ==
  /\ isProofreadTarget(element)
  /\ IF element \in registeredElements
     THEN UNCHANGED <<registeredElements, elementIds, elementLookup, tCreated, tGiven>>
     ELSE /\ registeredElements' = registeredElements \cup {element}
          /\ CallGetElementId(element)
  /\ UNCHANGED <<tAttached, tLast>>
  /\ UNCHANGED tRest

UnregisterElement(element) ==
  /\ IF element \notin registeredElements
     THEN UNCHANGED <<registeredElements, elementLookup>>
     ELSE /\ registeredElements' = registeredElements \ {element}
          /\ elementLookup' = IF elementIds[element] # 0
                              THEN [elementLookup EXCEPT ![elementIds[element]] = 0]
                              ELSE elementLookup
  /\ UNCHANGED <<elementIds, tCreated, tGiven, tAttached, tLast>>
  /\ UNCHANGED tRest

hasRegisteredContentEditableAncestor(element) ==
  \E parent \in Ancestors(element) :
    parent \in registeredElements \/ isContentEditable(parent)

\* handleAddedNode(node): the elements onElementAdded is called with
handleAddedNode(node) ==
  IF ~isProofreadTarget(node) THEN {}
  ELSE IF hasRegisteredContentEditableAncestor(node) THEN {}
  ELSE {node}

\* the page inserts an element below the body or below an element of the
\* document, alone or with what it holds; the observer's callback gets the
\* inserted element as the added node
ObserveAddedNode(node, deep) ==
  LET added == IF deep THEN {node} \cup Descendants(node) ELSE {node}
  IN  /\ node \notin tAttached
      /\ parentElement(node) = 0 \/ parentElement(node) \in tAttached
      /\ deep => Descendants(node) # {}
      /\ tAttached' = tAttached \cup added
      /\ tLast' = [seq |-> tLast.seq + 1, node |-> node, added |-> added,
                   tracked |-> registeredElements, reported |-> handleAddedNode(node)]
      /\ UNCHANGED <<registeredElements, elementIds, elementLookup, tCreated, tGiven>>
      /\ UNCHANGED tRest

NextTracker ==
  \/ \E element \in DomNodes : GetElementId(element)
  \/ \E element \in DomNodes : RegisterElement(element)
  \/ \E element \in DomNodes : UnregisterElement(element)
  \/ \E node \in DomNodes, deep \in BOOLEAN : ObserveAddedNode(node, deep)

SpecTracker == Init /\ [][NextTracker]_vars

\* C26: getElementId returns the same identifier on every call for an element,
\* before it is registered, while it is and after it was unregistered and
\* registered again, and no two elements are given the same identifier.
C26_StableUniqueIds ==
  /\ \A e \in DomNodes : Cardinality(tGiven[e]) <= 1
  /\ \A e \in DomNodes : tGiven[e] \subseteq {elementIds[e]}
  /\ \A e, f \in DomNodes : e # f => tGiven[e] \cap tGiven[f] = {}

\* an element that has its identifier was unregistered and registered again,
\* and another element has an identifier too
C26_Witness ==
  \E e \in registeredElements, f \in DomNodes :
    /\ tGiven[e] # {}
    /\ elementLookup[elementIds[e]] = 0
    /\ f # e
    /\ tGiven[f] # {}

\* C27: for every registered element e, getElementById(getElementId(e)) is e,
\* after any sequence of registerElement, unregisterElement and getElementId
\* calls; for an identifier that was never given out getElementById returns
\* nothing.
C27_LookupFindsRegistered ==
  /\ \A e \in registeredElements :
       getElementById(getElementId(Tracker, e).returned) = e
  /\ \A id \in Identifiers : id > tCreated => getElementById(id) = 0

\* C28: when a subtree is added to the document, every proofreading target in
\* it, the added root and what it holds, is reported as added, except a target
\* inside a rich-editable ancestor that is already tracked.
C28_AddedSubtreeReported ==
  tLast.seq > 0 =>
    tLast.reported =
      {e \in tLast.added :
         /\ isProofreadTarget(e)
         /\ ~\E a \in Ancestors(e) : a \in tLast.tracked /\ isContentEditable(a)}

\* ------------------------------------------------------------------ offsets after an apply

\* the corrections of a list lie in the text and cover at least one character
ValidAgainst(corrections, text) ==
  \A k \in 1..Len(corrections) :
    /\ 0 <= corrections[k].startIndex
    /\ corrections[k].startIndex < corrections[k].endIndex
    /\ corrections[k].endIndex <= Len(text)

\* C30: the offsets stay valid against the current text: after a correction of
\* the element's list (valid against the text) was applied and the others were
\* rebased, every remaining correction has 0 <= startIndex < endIndex <= the
\* length of the new text and covers the characters it covered before.
C30_OffsetsStayValid ==
  (aLast.kind = "applied" /\ ValidAgainst(aLast.before, aLast.text)) =>
    /\ ValidAgainst(aCorrections, aText)
    /\ \A i \in 1..Len(aCorrections) : \A j \in 1..Len(aLast.before) :
         aCorrections[i].id = aLast.before[j].id =>
           Substring(aText, aCorrections[i].startIndex, aCorrections[i].endIndex)
             = Substring(aLast.text, aLast.before[j].startIndex, aLast.before[j].endIndex)

\* ------------------------------------------------------------------ AsyncQueue: progress

Started == {started[k] : k \in 1..Len(started)}

\* C33: as the operations settle, every enqueued operation that clear() did
\* not drop is eventually started and its enqueue promise settles, and the
\* queue then drains: processing is false and size() is 0; an operation
\* enqueued while another runs, or when the last one has just finished, is
\* not left behind.
C33_EveryOperationRuns ==
  /\ \A i \in Ops :
       (opState[i] # "new") ~>
         (opState[i] = "dropped" \/ (i \in Started /\ promise[i].state # "pending"))
  /\ \A i \in Ops :
       (opState[i] \in {"queued", "running", "settled"}) ~> (~processing /\ size = 0)
  /\ [](pqAwait = 0 => (~processing /\ size = 0))

\* four operations ran, none was dropped, and the queue has drained
C33_Witness ==
  /\ started = <<1, 2, 3, 4>>
  /\ \A i \in Ops : opState[i] = "done" /\ promise[i].state # "pending"
  /\ ~processing
  /\ size = 0

\* C34: after clear() an operation that was waiting is never started and its
\* enqueue promise never settles; the operation that is executing runs to its
\* end and settles its promise, and operations enqueued afterwards run.
C34_ClearDropsWaiting ==
  /\ [](\A i \in Ops : opState[i] = "dropped" =>
          (i \notin Started /\ promise[i].state = "pending"))
  /\ [][\A i \in Ops : opState[i] = "dropped" => opState'[i] = "dropped"]_vars
  /\ \A i \in Ops :
       (opState[i] \in {"running", "settled"}) ~>
         (opState[i] = "done" /\ promise[i].state # "pending")
  /\ \A i \in Ops :
       (opState[i] = "queued") ~> (opState[i] \in {"done", "dropped"})

\* the second operation was dropped by a clear() while the first was running;
\* the first and one enqueued after the clear have finished
C34_Witness ==
  /\ opState[2] = "dropped"
  /\ opState[1] = "done" /\ promise[1].state # "pending"
  /\ opState[3] = "done" /\ promise[3].state # "pending"
  /\ started = <<1, 3>>

\* ------------------------------------------------------------------ deferred emissions

\* C35: at most one deferred emission of the IssueManager is outstanding at
\* any time, and pendingIssuesUpdate is true exactly while a queued emission
\* microtask has not run, for every interleaving of scheduleIssuesUpdate() and
\* scheduleIssuesUpdate(true).
C35_OneOutstandingEmission ==
  /\ Len(microtasks) <= 1
  /\ pendingIssuesUpdate = (Len(microtasks) > 0)

\* ------------------------------------------------------------------ the proxy's counter

\* C36: activeOperations is the number of handleProofreadRequest calls that
\* have started and not returned: it is never negative, goes up once per
\* request and down once on every exit (result, proofreader error, creation
\* error), and it is 0, with isProofreaderProxyBusy false, whenever no request
\* is in flight.
C36_CounterCountsInFlight ==
  /\ activeOperations >= 0
  /\ activeOperations = Cardinality({r \in Requests : pRequests[r].phase # "new"})
                          - Cardinality({r \in Requests : pRequests[r].phase = "done"})
  /\ (InFlight = {}) = ~isProofreaderProxyBusy

\* a request left through a creation error while another is still in flight
C36_Witness ==
  /\ pReturned.request > 0
  /\ pRequests[pReturned.request].service = 0
  /\ ~pReturned.response.ok
  /\ activeOperations = 1
  /\ Cardinality(InFlight) = 1

\* ------------------------------------------------------------------ busy notifications

LastReportedBusy == IF svcBusyLog = <<>> THEN FALSE ELSE svcBusyLog[Len(svcBusyLog)]

\* C37: every busy=true notification is followed by a busy=false notification
\* once the request has settled, whether it came back with a response, with an
\* empty response or the dispatch threw: while a request is being dispatched
\* the last value reported is true, whenever no request is being dispatched it
\* is false, and every earlier busy=true in the notifications is directly
\* followed by busy=false.
C37_BusyEndsWithRequest ==
  /\ svcRun.phase # "requesting" => ~LastReportedBusy
  /\ svcRun.phase = "requesting" => LastReportedBusy
  /\ \A k \in 1..(Len(svcBusyLog) - 1) : svcBusyLog[k] => ~svcBusyLog[k + 1]

\* under weak fairness of the service's own steps (the detection and the
\* response do come back) a reported busy=true never lasts
C37_BusyNeverLasts == LastReportedBusy ~> ~LastReportedBusy

\* a request whose dispatch threw and one that came back empty have both been
\* followed by busy=false
C37_Witness ==
  /\ svcBusyLog = <<TRUE, FALSE, TRUE, FALSE>>
  /\ svcLast.seq = 2
  /\ svcLast.response.code \in {"empty", "rejected"}
  /\ svcRun.phase = "idle"

\* ------------------------------------------------------------------ ProofreadingManager: debouncing per surface
\* observeEditableElements creates one debounced function for the whole manager
\* and handleInput calls it with the event's target, so the arguments of the
\* debounce closure (Args) are the surfaces.

\* C31: an input on surface A followed within the debounce window by an input
\* on another surface B leaves A's run pending: right after the two calls a
\* timeout carrying A is still scheduled.
C31_InputElsewhereKeepsPendingRun ==
  \A k \in CallIdx :
    (/\ k + 1 = Len(dLog)
     /\ dLog[k + 1].kind = "call"
     /\ dLog[k + 1].arg # dLog[k].arg
     /\ dLog[k + 1].t < dLog[k].t + DelayMs)
    => \E t \in timers : t.args = dLog[k].arg

\* ------------------------------------------------------------------ IssueManager.getCorrection
NextLookup ==
  \/ StoreCorrections
  \/ EmitElementIssues
  \/ \E issueId \in IssueIds : GetCorrection(issueId)

SpecGetCorrection == InitAnyLookup /\ [][NextLookup]_vars

\* the ordinals (from 1) of the stored valid corrections that were given this id
OrdinalsOf(issueId) ==
  LET valid == ValidCorrections(idInput)
  IN {k \in 1..Len(valid) : buildIssueId(valid[k], k - 1) = issueId}

ShownCount(text) ==
  IF text \in {"", " ", "unset"} THEN 0
  ELSE IF text = "99+" THEN 100
  ELSE CHOOSE n \in 1..99 : ToString(n) = text

\* C38: the badge updates of a tab run one at a time in the order they were
\* enqueued: the updates still queued carry the ordinals that follow the number
\* of updates started, at most one started update has not settled, and the
\* tab's chain is occupied exactly while one has not, so that an update that
\* failed leaves the chain free for the next one.
C38_BadgeUpdatesInOrder ==
  \A t \in Tabs :
    LET h == badgeHist[t] IN
    /\ Len(h.tickets) = Len(badgeQueue[t])
    /\ \A k \in 1..Len(h.tickets) : h.tickets[k] = h.started + k
    /\ h.issued = h.started + Len(badgeQueue[t])
    /\ h.started - h.settled \in {0, 1}
    /\ badgeRun[t].active <=> h.started - h.settled = 1

\* the first badge update of tab 1 failed and the second one is running
C38_Witness ==
  /\ badgeHist[1].started = 2
  /\ badgeHist[1].settled = 1
  /\ badgeHist[1].failed
  /\ badgeRun[1].active
  /\ baLast.seq = 1
  /\ baLast.tab = 1
  /\ baLast.ran

====
